---- MODULE Spec2Model ----
(***************************************************************************)
(* Model of the pcs configuration validators:                              *)
(*   - pcs/lib/cib/constraint/constraint.py  (the constraint builder)      *)
(*   - pcs/lib/corosync/config_validators.py (corosync.conf validators)    *)
(*                                                                         *)
(* Python values are modelled as follows.                                  *)
(*   str           a TLA+ string (concatenated with \o)                    *)
(*   list / tuple  a sequence                                              *)
(*   dict          a sequence of <<key, value>> pairs with distinct keys,  *)
(*                 in insertion order                                      *)
(*   None          the index 0 for an element lookup                       *)
(*   raise LibraryError(report)                                            *)
(*                 a result record with raised = TRUE and the reports      *)
(* An lxml element is a record; the resources section is a sequence of     *)
(* elements in document order, each with the index of its parent (0 for    *)
(* the section itself); the constraint section is a sequence of constraint *)
(* elements in document order.                                             *)
(***************************************************************************)
EXTENDS Integers, Sequences, FiniteSets, TLC

VARIABLES cib, call

vars == <<cib, call>>

\* ------------------------------------------------------------------ bounds
MaxResources == 3
MaxConstraints == 2
MaxSection == 3
MaxNodes == 2
MaxLinks == 2

\* ---------------------------------------------------------- python helpers
Range(s) == { s[i] : i \in 1..Len(s) }

dict_keys(d) == [ i \in 1..Len(d) |-> d[i][1] ]

dict_has(d, k) == \E i \in 1..Len(d) : d[i][1] = k

dict_get(d, k) == d[CHOOSE i \in 1..Len(d) : d[i][1] = k][2]

dict_set(d, k, v) ==
    IF dict_has(d, k)
    THEN [ i \in 1..Len(d) |-> IF d[i][1] = k THEN <<k, v>> ELSE d[i] ]
    ELSE Append(d, <<k, v>>)

RECURSIVE dict_update(_, _)
dict_update(d, other) ==
    IF other = <<>> THEN d
    ELSE dict_update(dict_set(d, Head(other)[1], Head(other)[2]), Tail(other))

RECURSIVE str_join(_, _)
str_join(sep, parts) ==
    IF parts = <<>> THEN ""
    ELSE IF Len(parts) = 1 THEN parts[1]
    ELSE parts[1] \o sep \o str_join(sep, Tail(parts))

RECURSIVE str_concat(_)
str_concat(parts) ==
    IF parts = <<>> THEN "" ELSE Head(parts) \o str_concat(Tail(parts))

SeqsUpTo(S, n) == UNION { [1..k -> S] : k \in 0..n }

\* the result of a call: a return value, or a raised LibraryError
Returned(tree, v) == [raised |-> FALSE, value |-> <<v>>, reports |-> <<>>, cib |-> tree]

Raised(tree, report) == [raised |-> TRUE, value |-> <<>>, reports |-> <<report>>, cib |-> tree]

\* ---------------------------------------------------------------- reports
ERROR == "ERROR"

WARNING == "WARNING"

ReportItem(code, severity, forceable, info) ==
    [code |-> code, severity |-> severity, forceable |-> forceable, info |-> info]

\* a report without a force code
NoForce == "None"

resource_does_not_exist(id) ==
    ReportItem("resource_does_not_exist", ERROR, NoForce, [resource_id |-> id])

resource_is_in_master(resource_id, master_id) ==
    ReportItem("resource_is_in_master", ERROR, NoForce,
               [resource_id |-> resource_id, master_id |-> master_id])

resource_is_in_clone(resource_id, clone_id) ==
    ReportItem("resource_is_in_clone", ERROR, NoForce,
               [resource_id |-> resource_id, clone_id |-> clone_id])

invalid_option(allowed_options, option_name) ==
    ReportItem("invalid_option", ERROR, NoForce,
               [option_name |-> option_name, allowed |-> allowed_options])

duplicit_constraints_exist(type, constraint_info_list) ==
    ReportItem("duplicit_constraints_exist", ERROR, NoForce,
               [type |-> type, constraint_info_list |-> constraint_info_list])

\* ------------------------------------------------------- the resource tree
TAGS_CLONE == {"clone", "master"}

TAGS_ALL == TAGS_CLONE \cup {"primitive", "group"}

\* every id attribute in the tree: resources, constraints, resource references
all_ids(tree) ==
    { tree.resources[i].id : i \in 1..Len(tree.resources) }
    \cup { dict_get(tree.constraints[i].attrib, "id") :
             i \in { j \in 1..Len(tree.constraints) :
                       dict_has(tree.constraints[j].attrib, "id") } }
    \cup UNION { UNION { Range(tree.constraints[i].resource_sets[s].ids) :
                           s \in 1..Len(tree.constraints[i].resource_sets) } :
                 i \in 1..Len(tree.constraints) }

\* resource.find_by_id: the first element in document order that carries the
\* id and is a resource; 0 when there is none
find_by_id(tree, id) ==
    LET hits == { i \in 1..Len(tree.resources) :
                    /\ tree.resources[i].id = id
                    /\ tree.resources[i].tag \in TAGS_ALL }
    IN IF hits = {} THEN 0 ELSE CHOOSE i \in hits : \A j \in hits : i <= j

\* tools.find_parent: the nearest ancestor whose tag is in tag_names; 0 when
\* there is none
RECURSIVE find_parent(_, _, _)
find_parent(tree, element, tag_names) ==
    LET parent == tree.resources[element].parent
    IN IF parent = 0 THEN 0
       ELSE IF tree.resources[parent].tag \in tag_names THEN parent
       ELSE find_parent(tree, parent, tag_names)

\* ------------------------------------------------- find_valid_resource_id
\* Each function is written as a chain of operators, one per stretch of its
\* body, so that a value the body names once (resource_element, clone) is a
\* parameter of the operators that use it.

\* lines 39-52 with in_clone_allowed tested before can_repair_to_clone
resolve_in_clone_allowed_first(tree, can_repair_to_clone, in_clone_allowed, resource_element, clone) ==
    IF in_clone_allowed
    THEN Returned(tree, tree.resources[resource_element].id)
    ELSE IF can_repair_to_clone
    THEN Returned(tree, tree.resources[clone].id)
    ELSE IF tree.resources[clone].tag = "master"
    THEN Raised(tree, resource_is_in_master(
             tree.resources[resource_element].id, tree.resources[clone].id))
    ELSE Raised(tree, resource_is_in_clone(
             tree.resources[resource_element].id, tree.resources[clone].id))

\* lines 39-52 detaching the resource from its clone when it repairs the id
resolve_in_clone_detaching(tree, can_repair_to_clone, in_clone_allowed, resource_element, clone) ==
    IF can_repair_to_clone
    THEN Returned([tree EXCEPT !.resources[resource_element].parent = 0],
                  tree.resources[clone].id)
    ELSE IF in_clone_allowed
    THEN Returned(tree, tree.resources[resource_element].id)
    ELSE IF tree.resources[clone].tag = "master"
    THEN Raised(tree, resource_is_in_master(
             tree.resources[resource_element].id, tree.resources[clone].id))
    ELSE Raised(tree, resource_is_in_clone(
             tree.resources[resource_element].id, tree.resources[clone].id))

\* lines 39-52: the resource is inside the clone/master `clone`
resolve_in_clone(tree, can_repair_to_clone, in_clone_allowed, resource_element, clone) ==
    IF can_repair_to_clone
    THEN Returned(tree, tree.resources[clone].id)
    ELSE IF in_clone_allowed
    THEN Returned(tree, tree.resources[resource_element].id)
    ELSE IF tree.resources[clone].tag = "master"
    THEN Raised(tree, resource_is_in_master(
             tree.resources[resource_element].id, tree.resources[clone].id))
    ELSE Raised(tree, resource_is_in_clone(
             tree.resources[resource_element].id, tree.resources[clone].id))

\* lines 35-37: clone = find_parent(resource_element, TAGS_CLONE)
resolve_with_parent(tree, can_repair_to_clone, in_clone_allowed, resource_element, clone) ==
    IF clone = 0
    THEN Returned(tree, tree.resources[resource_element].id)
    ELSE resolve_in_clone(
             tree, can_repair_to_clone, in_clone_allowed, resource_element, clone)

\* lines 29-33 passing an unknown id through instead of failing
resolve_element_unknown_passes(tree, can_repair_to_clone, in_clone_allowed, id, resource_element) ==
    IF resource_element = 0
    THEN Returned(tree, id)
    ELSE IF tree.resources[resource_element].tag \in TAGS_CLONE
    THEN Returned(tree, tree.resources[resource_element].id)
    ELSE resolve_with_parent(
             tree, can_repair_to_clone, in_clone_allowed, resource_element,
             find_parent(tree, resource_element, TAGS_CLONE))

\* lines 29-33: resource_element = resource.find_by_id(cib, id)
resolve_element(tree, can_repair_to_clone, in_clone_allowed, id, resource_element) ==
    IF resource_element = 0
    THEN Raised(tree, resource_does_not_exist(id))
    ELSE IF tree.resources[resource_element].tag \in TAGS_CLONE
    THEN Returned(tree, tree.resources[resource_element].id)
    ELSE resolve_with_parent(
             tree, can_repair_to_clone, in_clone_allowed, resource_element,
             find_parent(tree, resource_element, TAGS_CLONE))

find_valid_resource_id(tree, can_repair_to_clone, in_clone_allowed, id) ==
    resolve_element(
        tree, can_repair_to_clone, in_clone_allowed, id, find_by_id(tree, id))

\* ---------------------------------------------- prepare_resource_set_list
\* a list comprehension: the results so far, then the rest; the first item
\* that raises ends it
comprehension_rest(first, rest) ==
    IF rest.raised THEN rest
    ELSE Returned(rest.cib, <<first.value[1]>> \o rest.value[1])

\* resource_set.prepare_set: [find_valid_id(id) for id in resource_set["ids"]]
RECURSIVE prepare_set_ids(_, _, _, _)
prepare_set_ids_rest(first, can_repair_to_clone, in_clone_allowed, ids) ==
    IF first.raised THEN first
    ELSE comprehension_rest(
             first,
             prepare_set_ids(first.cib, can_repair_to_clone, in_clone_allowed, ids))

prepare_set_ids(tree, can_repair_to_clone, in_clone_allowed, ids) ==
    IF ids = <<>> THEN Returned(tree, <<>>)
    ELSE prepare_set_ids_rest(
             find_valid_resource_id(
                 tree, can_repair_to_clone, in_clone_allowed, Head(ids)),
             can_repair_to_clone, in_clone_allowed, Tail(ids))

prepare_set_result(ids, resource_set_item) ==
    IF ids.raised THEN ids
    ELSE Returned(ids.cib,
                  [ids |-> ids.value[1], options |-> resource_set_item.options])

prepare_set(tree, can_repair_to_clone, in_clone_allowed, resource_set_item) ==
    prepare_set_result(
        prepare_set_ids(
            tree, can_repair_to_clone, in_clone_allowed, resource_set_item.ids),
        resource_set_item)

RECURSIVE prepare_resource_set_list(_, _, _, _)
prepare_resource_set_list_rest(first, can_repair_to_clone, in_clone_allowed, resource_set_list) ==
    IF first.raised THEN first
    ELSE comprehension_rest(
             first,
             prepare_resource_set_list(
                 first.cib, can_repair_to_clone, in_clone_allowed, resource_set_list))

prepare_resource_set_list(tree, can_repair_to_clone, in_clone_allowed, resource_set_list) ==
    IF resource_set_list = <<>> THEN Returned(tree, <<>>)
    ELSE prepare_resource_set_list_rest(
             prepare_set(
                 tree, can_repair_to_clone, in_clone_allowed,
                 Head(resource_set_list)),
             can_repair_to_clone, in_clone_allowed, Tail(resource_set_list))

\* ------------------------------------------------------------- create_id
\* tools.find_unique_id: check_id itself when unused, else check_id-N for the
\* first N = 1, 2, ... that no element uses
RECURSIVE find_unique_id_from(_, _, _)
find_unique_id_from(tree, check_id, counter) ==
    LET temp_id == check_id \o "-" \o ToString(counter)
    IN IF temp_id \in all_ids(tree)
       THEN find_unique_id_from(tree, check_id, counter + 1)
       ELSE temp_id

find_unique_id(tree, check_id) ==
    IF check_id \in all_ids(tree)
    THEN find_unique_id_from(tree, check_id, 1)
    ELSE check_id

\* resource_set.extract_id_set_list
extract_id_set_list(resource_set_list) ==
    [ i \in 1..Len(resource_set_list) |-> resource_set_list[i].ids ]

create_id_candidate(type_prefix, resource_set_list) ==
    "pcs_" \o type_prefix \o str_concat(
        [ i \in 1..Len(resource_set_list) |->
            "_set_" \o str_join("_", extract_id_set_list(resource_set_list)[i]) ])

\* create_id returning its candidate without find_unique_id
create_id_candidate_only(tree, type_prefix, resource_set_list) ==
    Returned(tree, create_id_candidate(type_prefix, resource_set_list))

create_id(tree, type_prefix, resource_set_list) ==
    Returned(tree, find_unique_id(tree, create_id_candidate(type_prefix, resource_set_list)))

\* -------------------------------------------------------- prepare_options
\* the first option name, in the dict's order, that is not allowed; 0 if none
first_invalid_name(attrib_names, options) ==
    LET bad == { i \in 1..Len(options) : options[i][1] \notin Range(attrib_names) }
    IN IF bad = {} THEN 0 ELSE CHOOSE i \in bad : \A j \in bad : i <= j

validate_attrib_names(attrib_names, options) ==
    LET i == first_invalid_name(attrib_names, options)
    IN IF i = 0 THEN <<>>
       ELSE <<invalid_option(attrib_names, options[i][1])>>

\* create_id is the result the callback gives when it is called; validate_id
\* is the report sequence the callback raises for an id (empty: it returns).
\* The result carries the callbacks invoked, in order, and the caller's
\* option dict as it is after the call.

\* prepare_options without line 69, working on the caller's dict
prepare_options_no_copy(attrib_names, options, create_id_result, validate_id_reports) ==
    LET name_reports == validate_attrib_names(attrib_names \o <<"id">>, options)
    IN IF name_reports # <<>>
       THEN [raised |-> TRUE, value |-> <<>>, reports |-> name_reports,
             calls |-> <<>>, caller_options |-> options]
       ELSE IF ~dict_has(options, "id")
       THEN [raised |-> FALSE,
             value |-> <<dict_set(options, "id", create_id_result.value[1])>>,
             reports |-> <<>>,
             calls |-> << <<"create_id">> >>,
             caller_options |-> dict_set(options, "id", create_id_result.value[1])]
       ELSE IF validate_id_reports # <<>>
       THEN [raised |-> TRUE, value |-> <<>>, reports |-> validate_id_reports,
             calls |-> << <<"validate_id", dict_get(options, "id")>> >>,
             caller_options |-> options]
       ELSE [raised |-> FALSE, value |-> <<options>>, reports |-> <<>>,
             calls |-> << <<"validate_id", dict_get(options, "id")>> >>,
             caller_options |-> options]

prepare_options(attrib_names, options, create_id_result, validate_id_reports) ==
    LET name_reports == validate_attrib_names(attrib_names \o <<"id">>, options)
        copy == options
    IN IF name_reports # <<>>
       THEN [raised |-> TRUE, value |-> <<>>, reports |-> name_reports,
             calls |-> <<>>, caller_options |-> options]
       ELSE IF ~dict_has(copy, "id")
       THEN [raised |-> FALSE,
             value |-> <<dict_set(copy, "id", create_id_result.value[1])>>,
             reports |-> <<>>,
             calls |-> << <<"create_id">> >>, caller_options |-> options]
       ELSE IF validate_id_reports # <<>>
       THEN [raised |-> TRUE, value |-> <<>>, reports |-> validate_id_reports,
             calls |-> << <<"validate_id", dict_get(copy, "id")>> >>,
             caller_options |-> options]
       ELSE [raised |-> FALSE, value |-> <<copy>>, reports |-> <<>>,
             calls |-> << <<"validate_id", dict_get(copy, "id")>> >>,
             caller_options |-> options]

\* ------------------------------------------------------ duplicate detection
\* resource_set.get_resource_id_set_list: the ids of the set's references
get_resource_id_set_list(resource_set_item) == resource_set_item.ids

get_id_set_list(element) ==
    [ i \in 1..Len(element.resource_sets) |->
        get_resource_id_set_list(element.resource_sets[i]) ]

\* have_duplicit_resource_sets comparing the ids of each set as a set
have_duplicit_resource_sets_unordered(element, other_element) ==
    [ i \in 1..Len(element.resource_sets) |->
        Range(get_resource_id_set_list(element.resource_sets[i])) ]
    = [ i \in 1..Len(other_element.resource_sets) |->
          Range(get_resource_id_set_list(other_element.resource_sets[i])) ]

\* have_duplicit_resource_sets comparing the resource_set elements whole,
\* their attributes included
have_duplicit_resource_sets_with_attributes(element, other_element) ==
    element.resource_sets = other_element.resource_sets

have_duplicit_resource_sets(element, other_element) ==
    get_id_set_list(element) = get_id_set_list(other_element)

\* resource_set.export
resource_set_export(resource_set_item) ==
    [ids |-> resource_set_item.ids, options |-> resource_set_item.attrib]

export_with_set(element) ==
    [resource_sets |-> [ i \in 1..Len(element.resource_sets) |->
                           resource_set_export(element.resource_sets[i]) ],
     attrib |-> element.attrib]

\* lines 107-115 without `element is not duplicit_element`
duplicit_element_list_with_itself(tree, element) ==
    LET section == tree.constraints
        IsDuplicit(i) ==
            /\ section[i].tag = section[element].tag
            /\ have_duplicit_resource_sets(section[element], section[i])
    IN SelectSeq([ i \in 1..Len(section) |-> i ], IsDuplicit)

\* the indices, in document order, of the elements that duplicate the element
\* at index `element`
duplicit_element_list(tree, element) ==
    LET section == tree.constraints
        IsDuplicit(i) ==
            /\ section[i].tag = section[element].tag
            /\ i # element
            /\ have_duplicit_resource_sets(section[element], section[i])
    IN SelectSeq([ i \in 1..Len(section) |-> i ], IsDuplicit)

check_is_without_duplication(tree, element) ==
    LET found == duplicit_element_list(tree, element)
    IN IF found # <<>>
       THEN Raised(tree, duplicit_constraints_exist(
                tree.constraints[element].tag,
                [ i \in 1..Len(found) |-> export_with_set(tree.constraints[found[i]]) ]))
       ELSE Returned(tree, "None")

\* ---------------------------------------------------------- create_with_set
\* resource_set.create: one resource_set child with the set's options as
\* attributes and one resource_ref per id
resource_set_create(resource_set_item) ==
    [attrib |-> resource_set_item.options, ids |-> resource_set_item.ids]

\* returns the index of the new element
create_with_set(tree, tag_name, options, resource_set_list) ==
    LET element == [tag |-> tag_name,
                    attrib |-> dict_update(<<>>, options),
                    resource_sets |-> [ i \in 1..Len(resource_set_list) |->
                                          resource_set_create(resource_set_list[i]) ]]
        section == Append(tree.constraints, element)
    IN Returned([tree EXCEPT !.constraints = section], Len(section))

\* ------------------------------------------------------------ state space
NoCall == [op |-> "none", args |-> <<>>, ret |-> <<>>]

\* what a call gave back, without the tree
Outcome(r) == [raised |-> r.raised, value |-> r.value, reports |-> r.reports]

ResourceIdAt(i) == "R" \o ToString(i)

\* every resources section of n elements: any resource tag, and as parent the
\* section or an earlier element that is not a primitive
RECURSIVE Forests(_)
Forests(n) ==
    IF n = 0 THEN { <<>> }
    ELSE UNION {
           { Append(f, [id |-> ResourceIdAt(n), tag |-> t, parent |-> p]) :
               t \in TAGS_ALL,
               p \in {0} \cup { j \in 1..(n - 1) : f[j].tag # "primitive" } } :
           f \in Forests(n - 1) }

ResourceTrees == UNION { Forests(n) : n \in 0..MaxResources }

MissingId == "missing"

LookupIds(tree) == all_ids(tree) \cup {MissingId}

NoOptions == <<>>

\* the resource set lists given to prepare_resource_set_list: one set of one
\* id, one set of two ids, two sets of one id
LookupSetLists(tree) ==
    { << [ids |-> <<a>>, options |-> NoOptions] >> : a \in LookupIds(tree) }
    \cup { << [ids |-> <<a, b>>, options |-> NoOptions] >> :
             a \in LookupIds(tree), b \in LookupIds(tree) }
    \cup { << [ids |-> <<a>>, options |-> NoOptions],
              [ids |-> <<b>>, options |-> NoOptions] >> :
             a \in LookupIds(tree), b \in LookupIds(tree) }

\* the resources the constraint builder runs against: three top-level
\* primitives and one primitive inside a clone
BuilderResources ==
    << [id |-> "A", tag |-> "primitive", parent |-> 0],
       [id |-> "B", tag |-> "primitive", parent |-> 0],
       [id |-> "A_B", tag |-> "primitive", parent |-> 0],
       [id |-> "C-clone", tag |-> "clone", parent |-> 0],
       [id |-> "C", tag |-> "primitive", parent |-> 4] >>

ConstraintTags == {"rsc_colocation", "rsc_order"}

IdSet(ids) == [ids |-> ids, options |-> NoOptions]

\* the resource set lists of the constraints a section is drawn from
SectionSetLists ==
    { << IdSet(<<"A", "B">>) >>,
      << IdSet(<<"B", "A">>) >>,
      << IdSet(<<"A", "C">>) >>,
      << IdSet(<<"A">>), IdSet(<<"B">>) >>,
      << [ids |-> <<"A", "B">>, options |-> << <<"sequential", "false">> >>] >> }

\* the resource set lists given to the builder
BuilderSetLists ==
    { << IdSet(<<"A", "B">>) >>,
      << [ids |-> <<"A", "B">>, options |-> << <<"sequential", "false">> >>] >>,
      << IdSet(<<"A_B">>) >>,
      << IdSet(<<"A">>), IdSet(<<"C">>) >> }

\* requests with two references that cannot be used: one resource set with an
\* unknown id and a resource inside a clone, and two resource sets
ViolatingSetLists ==
    { << IdSet(<<MissingId, "C">>) >>,
      << IdSet(<<"A", "C">>), IdSet(<<MissingId>>) >> }

\* the option names the builder allows
AllowedNames == << "score" >>

\* the constraint_options the builder's caller is given
BuilderOptions ==
    { <<>>,
      << <<"id", "pcs_rsc_order_set_A_B">> >>,
      << <<"kind", "1">> >> }

\* the option dicts given to prepare_options
OptionInputs ==
    { <<>>,
      << <<"id", "c1">> >>,
      << <<"score", "10">>, <<"id", "pcs_rsc_order_set_A_B">> >>,
      << <<"score", "10">> >>,
      << <<"kind", "1">>, <<"id", "c1">>, <<"role", "2">> >> }

\* the ids looked up while the builder runs
BuilderLookupIds == {"A", "C", "C-clone", MissingId}

\* a constraint element as create_with_set leaves it
ConstraintElement(tag_name, options, resource_set_list) ==
    [tag |-> tag_name,
     attrib |-> options,
     resource_sets |-> [ i \in 1..Len(resource_set_list) |->
                           [attrib |-> resource_set_list[i].options,
                            ids |-> resource_set_list[i].ids] ]]

\* every constraint section of n elements with ids c1 .. cn
RECURSIVE Sections(_)
Sections(n) ==
    IF n = 0 THEN { <<>> }
    ELSE { Append(sec, ConstraintElement(
                           t, << <<"id", "c" \o ToString(n)>> >>, l)) :
             sec \in Sections(n - 1), t \in ConstraintTags, l \in SectionSetLists }

\* ---------------------------------------------------------------- actions
\* Calls are synchronous: one call is made at a time, `call` holds it with
\* what it gave back until the caller goes on.
Idle == call.op = "none"

Return ==
    /\ ~Idle
    /\ call' = NoCall
    /\ UNCHANGED cib

FindValidResourceId(ids) ==
    /\ Idle
    /\ \E can_repair_to_clone \in BOOLEAN, in_clone_allowed \in BOOLEAN,
       id \in ids :
        LET r == find_valid_resource_id(cib, can_repair_to_clone, in_clone_allowed, id)
        IN /\ call' = [op |-> "find_valid_resource_id",
                       args |-> [can_repair_to_clone |-> can_repair_to_clone,
                                 in_clone_allowed |-> in_clone_allowed,
                                 id |-> id],
                       ret |-> Outcome(r)]
           /\ cib' = r.cib

PrepareResourceSetList(resource_set_lists) ==
    /\ Idle
    /\ \E can_repair_to_clone \in BOOLEAN, in_clone_allowed \in BOOLEAN,
       resource_set_list \in resource_set_lists :
        LET r == prepare_resource_set_list(
                     cib, can_repair_to_clone, in_clone_allowed, resource_set_list)
        IN /\ call' = [op |-> "prepare_resource_set_list",
                       args |-> [can_repair_to_clone |-> can_repair_to_clone,
                                 in_clone_allowed |-> in_clone_allowed,
                                 resource_set_list |-> resource_set_list],
                       ret |-> Outcome(r)]
           /\ cib' = r.cib

id_already_exists(id) ==
    ReportItem("id_already_exists", ERROR, NoForce, [id |-> id])

\* the validate_id callback of the builder's callers: an id some element
\* already uses is refused
validate_id_in_tree(tree, options) ==
    IF dict_has(options, "id") /\ dict_get(options, "id") \in all_ids(tree)
    THEN << id_already_exists(dict_get(options, "id")) >>
    ELSE <<>>

\* a validate_id callback that refuses the id it is given
validate_id_refusing(options) ==
    IF dict_has(options, "id")
    THEN << id_already_exists(dict_get(options, "id")) >>
    ELSE <<>>

CreateId ==
    /\ Idle
    /\ \E type_prefix \in ConstraintTags, resource_set_list \in BuilderSetLists :
        LET r == create_id(cib, type_prefix, resource_set_list)
        IN /\ call' = [op |-> "create_id",
                       args |-> [type_prefix |-> type_prefix,
                                 resource_set_list |-> resource_set_list],
                       ret |-> Outcome(r)]
           /\ cib' = r.cib

PrepareOptions ==
    /\ Idle
    /\ \E options \in OptionInputs, refuse \in BOOLEAN :
        LET created == create_id(cib, "rsc_order", << IdSet(<<"A", "B">>) >>)
            r == prepare_options(
                     AllowedNames, options, created,
                     IF refuse THEN validate_id_refusing(options) ELSE <<>>)
        IN /\ call' = [op |-> "prepare_options",
                       args |-> [attrib_names |-> AllowedNames,
                                 options |-> options,
                                 create_id |-> Outcome(created),
                                 validate_id_refuses |-> refuse],
                       ret |-> r]
           /\ UNCHANGED cib

HaveDuplicitResourceSets ==
    /\ Idle
    /\ \E element \in 1..Len(cib.constraints),
          other_element \in 1..Len(cib.constraints) :
        call' = [op |-> "have_duplicit_resource_sets",
                 args |-> [element |-> element, other_element |-> other_element],
                 ret |-> have_duplicit_resource_sets(
                             cib.constraints[element], cib.constraints[other_element])]
    /\ UNCHANGED cib

CheckIsWithoutDuplication ==
    /\ Idle
    /\ \E element \in 1..Len(cib.constraints) :
        LET r == check_is_without_duplication(cib, element)
        IN /\ call' = [op |-> "check_is_without_duplication",
                       args |-> [element |-> element],
                       ret |-> Outcome(r)]
           /\ cib' = r.cib

\* The builder's caller: resolve the references, prepare the options (the
\* id made by create_id when none is given, else checked to be unused),
\* create the element in the tree, check it for duplicates; a tree whose
\* new element failed the check is dropped.
BuilderFailed(tree, reports) ==
    [raised |-> TRUE, reports |-> reports, generated_id |-> FALSE, cib |-> tree]

builder_check(tree, created, generated_id) ==
    LET checked == check_is_without_duplication(created.cib, created.value[1])
    IN IF checked.raised
       THEN BuilderFailed(tree, checked.reports)
       ELSE [raised |-> FALSE, reports |-> <<>>, generated_id |-> generated_id,
             cib |-> checked.cib]

builder_create(tree, tag_name, opts, resource_set_list) ==
    IF opts.raised
    THEN BuilderFailed(tree, opts.reports)
    ELSE builder_check(
             tree,
             create_with_set(tree, tag_name, opts.value[1], resource_set_list),
             opts.calls = << <<"create_id">> >>)

builder_options(tree, tag_name, options, sets) ==
    IF sets.raised
    THEN BuilderFailed(sets.cib, sets.reports)
    ELSE builder_create(
             sets.cib, tag_name,
             prepare_options(
                 AllowedNames, options,
                 create_id(sets.cib, tag_name, sets.value[1]),
                 validate_id_in_tree(sets.cib, options)),
             sets.value[1])

builder_create_with_set(tree, tag_name, options, resource_set_list, can_repair_to_clone, in_clone_allowed) ==
    builder_options(
        tree, tag_name, options,
        prepare_resource_set_list(
            tree, can_repair_to_clone, in_clone_allowed, resource_set_list))

CreateWithSet ==
    /\ Idle
    /\ Len(cib.constraints) < MaxConstraints
    /\ \E tag_name \in ConstraintTags, options \in BuilderOptions,
          resource_set_list \in BuilderSetLists,
          can_repair_to_clone \in BOOLEAN, in_clone_allowed \in BOOLEAN :
        LET r == builder_create_with_set(
                     cib, tag_name, options, resource_set_list,
                     can_repair_to_clone, in_clone_allowed)
        IN /\ call' = [op |-> "create_with_set",
                       args |-> [tag_name |-> tag_name, options |-> options,
                                 resource_set_list |-> resource_set_list,
                                 can_repair_to_clone |-> can_repair_to_clone,
                                 in_clone_allowed |-> in_clone_allowed],
                       ret |-> [raised |-> r.raised, reports |-> r.reports,
                                generated_id |-> r.generated_id]]
           /\ cib' = r.cib

\* ------------------------------------------- resolving resource references
InitResolve ==
    /\ cib \in { [resources |-> f, constraints |-> <<>>] : f \in ResourceTrees }
    /\ call = NoCall

NextResolve ==
    \/ FindValidResourceId(LookupIds(cib))
    \/ PrepareResourceSetList(LookupSetLists(cib))
    \/ Return

SpecResolve == InitResolve /\ [][NextResolve]_vars

\* the ancestors of the element at index e, nearest first
RECURSIVE AncestorChain(_, _)
AncestorChain(tree, e) ==
    IF tree.resources[e].parent = 0 THEN <<>>
    ELSE <<tree.resources[e].parent>> \o AncestorChain(tree, tree.resources[e].parent)

IsCloneTag(tree, i) == tree.resources[i].tag \in {"clone", "master"}

\* the nearest enclosing clone/master of the element at index e; 0 if none
NearestClone(tree, e) ==
    LET clones == SelectSeq(AncestorChain(tree, e), LAMBDA i : IsCloneTag(tree, i))
    IN IF clones = <<>> THEN 0 ELSE clones[1]

\* the index of the element that carries the id; 0 if none
IndexOfId(tree, id) ==
    IF \E i \in 1..Len(tree.resources) : tree.resources[i].id = id
    THEN CHOOSE i \in 1..Len(tree.resources) : tree.resources[i].id = id
    ELSE 0

CalledFind == call.op = "find_valid_resource_id"

\* the call was given a resource that is no clone/master and is inside one
InsideClone ==
    /\ CalledFind
    /\ IndexOfId(cib, call.args.id) # 0
    /\ ~IsCloneTag(cib, IndexOfId(cib, call.args.id))
    /\ NearestClone(cib, IndexOfId(cib, call.args.id)) # 0

\* C1: for a resource inside a clone/master, with A the nearest enclosing
\* clone/master: can_repair_to_clone gives A's id; otherwise in_clone_allowed
\* gives the resource's own id; otherwise the call fails with
\* resource_is_in_master when A is a master and resource_is_in_clone when it
\* is a clone, and the report names the resource and A.
C1_ResourceInsideClone ==
    InsideClone =>
        LET e == IndexOfId(cib, call.args.id)
            A == cib.resources[NearestClone(cib, e)]
        IN /\ call.args.can_repair_to_clone =>
                /\ ~call.ret.raised
                /\ call.ret.value = <<A.id>>
           /\ (~call.args.can_repair_to_clone /\ call.args.in_clone_allowed) =>
                /\ ~call.ret.raised
                /\ call.ret.value = <<call.args.id>>
           /\ (~call.args.can_repair_to_clone /\ ~call.args.in_clone_allowed) =>
                /\ call.ret.raised
                /\ Len(call.ret.reports) = 1
                /\ call.ret.reports[1].severity = "ERROR"
                /\ call.ret.reports[1].code =
                     (IF A.tag = "master" THEN "resource_is_in_master"
                                          ELSE "resource_is_in_clone")
                /\ call.ret.reports[1].info.resource_id = call.args.id
                /\ (IF A.tag = "master"
                    THEN call.ret.reports[1].info.master_id
                    ELSE call.ret.reports[1].info.clone_id) = A.id

\* a primitive in a group in a master, both flags off: the call failed naming
\* the master, which is not the element's parent
C1_Witness ==
    /\ InsideClone
    /\ ~call.args.can_repair_to_clone
    /\ ~call.args.in_clone_allowed
    /\ LET e == IndexOfId(cib, call.args.id)
       IN /\ cib.resources[NearestClone(cib, e)].tag = "master"
          /\ cib.resources[e].parent # NearestClone(cib, e)
    /\ call.ret.raised

\* C2: an id that no element carries fails with resource_does_not_exist; the
\* id of a clone/master, or of a resource outside every clone/master, comes
\* back unchanged whatever the flags; every returned id is an id of the tree.
C2_NotFoundAndUnchanged ==
    CalledFind =>
        LET e == IndexOfId(cib, call.args.id)
        IN /\ call.args.id \notin all_ids(cib) =>
                /\ call.ret.raised
                /\ Len(call.ret.reports) = 1
                /\ call.ret.reports[1].code = "resource_does_not_exist"
                /\ call.ret.reports[1].info.resource_id = call.args.id
           /\ (e # 0 /\ (IsCloneTag(cib, e) \/ NearestClone(cib, e) = 0)) =>
                /\ ~call.ret.raised
                /\ call.ret.value = <<call.args.id>>
           /\ ~call.ret.raised => call.ret.value[1] \in all_ids(cib)

\* a clone nested in a master was looked up with can_repair_to_clone and came
\* back unchanged
C2_Witness ==
    /\ CalledFind
    /\ call.args.can_repair_to_clone
    /\ IndexOfId(cib, call.args.id) # 0
    /\ cib.resources[IndexOfId(cib, call.args.id)].tag = "clone"
    /\ NearestClone(cib, IndexOfId(cib, call.args.id)) # 0
    /\ ~call.ret.raised
    /\ call.ret.value = <<call.args.id>>

\* ----------------------------------------- duplicates in a given section
InitSection ==
    /\ cib \in { [resources |-> BuilderResources, constraints |-> sec] :
                   sec \in UNION { Sections(n) : n \in 0..MaxSection } }
    /\ call = NoCall

NextSection ==
    \/ HaveDuplicitResourceSets
    \/ CheckIsWithoutDuplication
    \/ Return

SpecSection == InitSection /\ [][NextSection]_vars

\* the two elements have the same number of sets, and set by set the same
\* number of ids, and id by id the same id
SameOrderedIdSets(e1, e2) ==
    /\ Len(e1.resource_sets) = Len(e2.resource_sets)
    /\ \A i \in 1..Len(e1.resource_sets) :
         /\ i <= Len(e2.resource_sets)
         /\ Len(e1.resource_sets[i].ids) = Len(e2.resource_sets[i].ids)
         /\ \A j \in 1..Len(e1.resource_sets[i].ids) :
              /\ j <= Len(e2.resource_sets[i].ids)
              /\ e1.resource_sets[i].ids[j] = e2.resource_sets[i].ids[j]

\* the element has the one set with these ids
HasOneSet(e, ids) == Len(e.resource_sets) = 1 /\ e.resource_sets[1].ids = ids

\* C3: have_duplicit_resource_sets is true exactly for two elements with the
\* same ordered list of ordered id lists: [A,B] duplicates [A,B], not [B,A],
\* and [A,C] duplicates neither.
C3_DuplicitIffSameOrderedSets ==
    call.op = "have_duplicit_resource_sets" =>
        LET e1 == cib.constraints[call.args.element]
            e2 == cib.constraints[call.args.other_element]
        IN /\ call.ret <=> SameOrderedIdSets(e1, e2)
           /\ (HasOneSet(e1, <<"A", "B">>) /\ HasOneSet(e2, <<"A", "B">>)) => call.ret
           /\ (HasOneSet(e1, <<"A", "B">>) /\ HasOneSet(e2, <<"B", "A">>)) => ~call.ret
           /\ (HasOneSet(e1, <<"A", "C">>) /\ ~HasOneSet(e2, <<"A", "C">>)) => ~call.ret
           /\ (HasOneSet(e2, <<"A", "C">>) /\ ~HasOneSet(e1, <<"A", "C">>)) => ~call.ret

\* [A,B] was compared with [B,A] of the same tag and found not to duplicate it
C3_Witness ==
    /\ call.op = "have_duplicit_resource_sets"
    /\ cib.constraints[call.args.element].tag
         = cib.constraints[call.args.other_element].tag
    /\ HasOneSet(cib.constraints[call.args.element], <<"A", "B">>)
    /\ HasOneSet(cib.constraints[call.args.other_element], <<"B", "A">>)
    /\ ~call.ret

\* the elements of the section that conflict with the element at index k
Conflicts(tree, k) ==
    { i \in 1..Len(tree.constraints) :
        /\ i # k
        /\ tree.constraints[i].tag = tree.constraints[k].tag
        /\ SameOrderedIdSets(tree.constraints[k], tree.constraints[i]) }

CalledCheck == call.op = "check_is_without_duplication"

\* C4: check_is_without_duplication fails exactly when another element of the
\* section has the element's tag and duplicates it; the one report then lists
\* the exported form of each such element, in document order, and not the
\* checked element; without such an element it returns and reports nothing.
C4_CheckFailsIffConflict ==
    CalledCheck =>
        LET k == call.args.element
            conflicts == Conflicts(cib, k)
        IN /\ call.ret.raised <=> conflicts # {}
           /\ ~call.ret.raised => call.ret.reports = <<>>
           /\ call.ret.raised =>
                /\ Len(call.ret.reports) = 1
                /\ call.ret.reports[1].code = "duplicit_constraints_exist"
                /\ call.ret.reports[1].severity = "ERROR"
                /\ call.ret.reports[1].info.type = cib.constraints[k].tag
                /\ LET list == call.ret.reports[1].info.constraint_info_list
                   IN /\ Len(list) = Cardinality(conflicts)
                      /\ \A n \in 1..Len(list) :
                           /\ list[n].attrib # cib.constraints[k].attrib
                           /\ \E i \in conflicts :
                                /\ Cardinality({ j \in conflicts : j < i }) = n - 1
                                /\ list[n].attrib = cib.constraints[i].attrib
                                /\ Len(list[n].resource_sets)
                                     = Len(cib.constraints[i].resource_sets)
                                /\ \A x \in 1..Len(list[n].resource_sets) :
                                     /\ list[n].resource_sets[x].ids
                                          = cib.constraints[i].resource_sets[x].ids
                                     /\ list[n].resource_sets[x].options
                                          = cib.constraints[i].resource_sets[x].attrib

\* the middle one of three duplicates was checked: the report lists the
\* elements before and after it
C4_Witness ==
    /\ CalledCheck
    /\ call.ret.raised
    /\ Len(call.ret.reports[1].info.constraint_info_list) = 2
    /\ \E i \in Conflicts(cib, call.args.element),
          j \in Conflicts(cib, call.args.element) :
            i < call.args.element /\ call.args.element < j

\* ------------------------------------------------- the constraint builder
Init ==
    /\ cib = [resources |-> BuilderResources, constraints |-> <<>>]
    /\ call = NoCall

Next ==
    \/ FindValidResourceId(BuilderLookupIds)
    \/ PrepareResourceSetList(BuilderSetLists \cup ViolatingSetLists)
    \/ PrepareOptions
    \/ CreateId
    \/ HaveDuplicitResourceSets
    \/ CheckIsWithoutDuplication
    \/ CreateWithSet
    \/ Return

Spec == Init /\ [][Next]_vars

\* C5: the tree is left as it is by find_valid_resource_id,
\* prepare_resource_set_list, prepare_options, create_id,
\* have_duplicit_resource_sets and check_is_without_duplication, whether
\* they return or fail: a step changes the tree only if it is a
\* create_with_set that went through.
C5_TreeChangesOnlyInCreateWithSet ==
    [][ cib' # cib => (call'.op = "create_with_set" /\ ~call'.ret.raised) ]_vars

\* a lookup with can_repair_to_clone gave the clone's id for a resource in a
\* clone, after a constraint had been created
C5_Witness ==
    /\ call.op = "find_valid_resource_id"
    /\ call.args.can_repair_to_clone
    /\ call.args.id = "C"
    /\ call.ret.value = <<"C-clone">>
    /\ Len(cib.constraints) > 0

\* C6: from a section without duplicates, when a new constraint stays only
\* if check_is_without_duplication passed for it, no two constraints of the
\* same tag have the same ordered list of ordered id lists.
C6_NoDuplicateConstraints ==
    \A i \in 1..Len(cib.constraints), j \in 1..Len(cib.constraints) :
        (i # j /\ cib.constraints[i].tag = cib.constraints[j].tag)
            => ~SameOrderedIdSets(cib.constraints[i], cib.constraints[j])

\* a constraint was refused as a duplicate of one whose set has the same ids
\* and other attributes
C6_Witness ==
    /\ call.op = "create_with_set"
    /\ call.ret.raised
    /\ call.ret.reports[1].code = "duplicit_constraints_exist"
    /\ Len(call.ret.reports[1].info.constraint_info_list) = 1
    /\ call.ret.reports[1].info.constraint_info_list[1].resource_sets[1].options
         # call.args.resource_set_list[1].options

\* the id of the constraint at index i
ConstraintId(tree, i) == dict_get(tree.constraints[i].attrib, "id")

\* the candidate id of the resource set lists the builder is given: the two
\* sets [A] and [C], or else one set, [A, B] or [A_B]
ExpectedCandidate(type_prefix, resource_set_list) ==
    "pcs_" \o type_prefix \o
    (IF Len(resource_set_list) = 2 THEN "_set_A_set_C" ELSE "_set_A_B")

\* C7: create_id returns an id no element of the tree uses: the candidate
\* "pcs_" + prefix + "_set_" + ids joined by "_" per set when it is unused,
\* else the candidate made unique; and all ids of the tree stay pairwise
\* distinct as constraints are added.
C7_CreateIdUnusedAndIdsDistinct ==
    /\ call.op = "create_id" =>
         LET candidate == ExpectedCandidate(
                              call.args.type_prefix, call.args.resource_set_list)
         IN /\ ~call.ret.raised
            /\ call.ret.value[1] \notin all_ids(cib)
            /\ candidate \notin all_ids(cib) => call.ret.value[1] = candidate
            /\ call.ret.value[1] \in
                 {candidate} \cup { candidate \o "-" \o ToString(n) :
                                      n \in 1..(Len(cib.constraints) + 1) }
    /\ \A i \in 1..Len(cib.constraints) :
         /\ dict_has(cib.constraints[i].attrib, "id")
         /\ \A j \in 1..Len(cib.constraints) :
              i # j => ConstraintId(cib, i) # ConstraintId(cib, j)
         /\ \A r \in 1..Len(cib.resources) :
              ConstraintId(cib, i) # cib.resources[r].id

\* two constraints with generated ids are in the tree, the second with the
\* candidate of the first made unique
C7_Witness ==
    /\ call.op = "create_with_set"
    /\ ~call.ret.raised
    /\ call.ret.generated_id
    /\ \E i \in 1..Len(cib.constraints), j \in 1..Len(cib.constraints) :
         /\ i < j
         /\ ConstraintId(cib, j) = ConstraintId(cib, i) \o "-1"

CalledPrepareOptions == call.op = "prepare_options"

NamesAllowed(attrib_names, options) ==
    \A i \in 1..Len(options) : options[i][1] \in Range(attrib_names) \cup {"id"}

\* the claim as it stands: with every name allowed, prepare_options returns
C8_ReturnsWhenNamesAllowed ==
    CalledPrepareOptions =>
        (NamesAllowed(call.args.attrib_names, call.args.options) => ~call.ret.raised)

\* C8, amended: prepare_options fails when a given name is outside
\* allowed_names + "id", and when validate_id refuses the given id;
\* otherwise it returns a copy of the options with an id. create_id is
\* called, once, exactly when no id was given, and its result is the id;
\* validate_id is called on the given id exactly when one was given, and
\* that id is kept; every other option comes back unchanged, and the
\* caller's dict is not modified.
C8_PrepareOptions ==
    CalledPrepareOptions =>
        LET given == call.args.options
            id_given == dict_has(given, "id")
        IN /\ call.ret.caller_options = given
           /\ ~NamesAllowed(call.args.attrib_names, given) =>
                /\ call.ret.raised
                /\ call.ret.calls = <<>>
                /\ Len(call.ret.reports) = 1
                /\ call.ret.reports[1].code = "invalid_option"
                /\ call.ret.reports[1].info.option_name
                     \notin Range(call.args.attrib_names) \cup {"id"}
           /\ NamesAllowed(call.args.attrib_names, given) =>
                /\ call.ret.raised <=> (id_given /\ call.args.validate_id_refuses)
                /\ id_given => call.ret.calls = << <<"validate_id", dict_get(given, "id")>> >>
                /\ ~id_given => call.ret.calls = << <<"create_id">> >>
                /\ ~call.ret.raised =>
                     /\ dict_has(call.ret.value[1], "id")
                     /\ dict_get(call.ret.value[1], "id") =
                          (IF id_given THEN dict_get(given, "id")
                                       ELSE call.args.create_id.value[1])
                     /\ \A i \in 1..Len(given) :
                          /\ dict_has(call.ret.value[1], given[i][1])
                          /\ dict_get(call.ret.value[1], given[i][1]) = given[i][2]
                     /\ Len(call.ret.value[1]) = Len(given) + (IF id_given THEN 0 ELSE 1)

\* options without an id were given: create_id was called and its id, made
\* unique against the tree, was added to the copy
C8_Witness ==
    /\ CalledPrepareOptions
    /\ call.args.options = << <<"score", "10">> >>
    /\ ~call.ret.raised
    /\ call.ret.calls = << <<"create_id">> >>
    /\ call.ret.value[1] = << <<"score", "10">>, <<"id", "pcs_rsc_order_set_A_B-1">> >>
    /\ call.ret.caller_options = << <<"score", "10">> >>

\* ======================================================================
\* corosync/config_validators.py: create
\* ======================================================================

\* ------------------------------------------------- pcs.lib.corosync.constants
TRANSPORTS_KNET == << "knet" >>

TRANSPORTS_UDP == << "udp", "udpu" >>

TRANSPORTS_ALL == TRANSPORTS_KNET \o TRANSPORTS_UDP

LINKS_KNET_MIN == 1

LINKS_KNET_MAX == 8

LINKS_UDP_MIN == 1

LINKS_UDP_MAX == 1

FORCE_NODE_ADDRESSES_UNRESOLVABLE == "FORCE_NODE_ADDRESSES_UNRESOLVABLE"

PyNone == "None"

\* ------------------------------------------------------------- addresses
\* the address strings of the model, by what they are: literals of either
\* family, a name the resolver knows and a name it does not know
IPv4Literals ==
    { "10.0.0.1", "10.0.0.2", "10.0.0.3", "10.0.0.4", "10.0.0.5",
      "10.0.0.6", "10.0.0.7", "10.0.0.8", "10.0.0.9" }

IPv6Literals == { "::1" }

ResolvableNames == { "host1" }

\* a name with an empty label: the lookup fails before any resolver is asked
MalformedNames == { "a..b" }

is_ipv4_address(address) == address \in IPv4Literals

is_ipv6_address(address) == address \in IPv6Literals

\* socket.getaddrinfo(address, None) raises socket.gaierror
getaddrinfo_gaierror(address) == address \notin (ResolvableNames \cup MalformedNames)

\* socket.getaddrinfo(address, None) raises UnicodeError (the idna encoding
\* of the host name fails), which is not a socket.gaierror
getaddrinfo_unicode_error(address) == address \in MalformedNames

\* what _get_address_type gives when an exception leaves it
UnicodeErrorRaised == "UnicodeError raised"

get_address_type(address) ==
    IF is_ipv4_address(address) THEN "IPv4"
    ELSE IF is_ipv6_address(address) THEN "IPv6"
    ELSE IF getaddrinfo_gaierror(address) THEN "unresolvable"
    ELSE IF getaddrinfo_unicode_error(address) THEN UnicodeErrorRaised
    ELSE "FQDN"

\* ---------------------------------------------------------------- reports
required_option_is_missing(option_names, option_type) ==
    ReportItem("required_option_is_missing", ERROR, NoForce,
               [option_names |-> option_names, option_type |-> option_type])

invalid_option_value(option_name, option_value, allowed_values) ==
    ReportItem("invalid_option_value", ERROR, NoForce,
               [option_name |-> option_name, option_value |-> option_value,
                allowed_values |-> allowed_values])

corosync_bad_node_addresses_count(actual_count, min_count, max_count, node_name, node_id) ==
    ReportItem("corosync_bad_node_addresses_count", ERROR, NoForce,
               [actual_count |-> actual_count, min_count |-> min_count,
                max_count |-> max_count, node_name |-> node_name,
                node_id |-> node_id])

node_addresses_unresolvable(address_list, severity, forceable) ==
    ReportItem("node_addresses_unresolvable", severity, forceable,
               [address_list |-> address_list])

corosync_node_name_duplication(name_list) ==
    ReportItem("corosync_node_name_duplication", ERROR, NoForce,
               [name_list |-> name_list])

corosync_node_address_duplication(address_list) ==
    ReportItem("corosync_node_address_duplication", ERROR, NoForce,
               [address_list |-> address_list])

corosync_node_address_count_mismatch(node_addr_count) ==
    ReportItem("corosync_node_address_count_mismatch", ERROR, NoForce,
               [node_addr_count |-> node_addr_count])

corosync_ip_version_mismatch_in_links(link_numbers) ==
    ReportItem("corosync_ip_version_mismatch_in_links", ERROR, NoForce,
               [link_numbers |-> link_numbers])

\* --------------------------------------------------------- pcs.lib.validate
\* each validator applied to an option dict gives its reports
is_required(option_name, option_type, option_dict) ==
    IF dict_has(option_dict, option_name) THEN <<>>
    ELSE << required_option_is_missing(<<option_name>>, option_type) >>

value_not_empty(option_name, value_type, option_name_for_report, option_dict) ==
    IF dict_has(option_dict, option_name) /\ dict_get(option_dict, option_name) = ""
    THEN << invalid_option_value(
                option_name_for_report, dict_get(option_dict, option_name), value_type) >>
    ELSE <<>>

value_in(option_name, allowed_values, option_dict) ==
    IF /\ dict_has(option_dict, option_name)
       /\ dict_get(option_dict, option_name) \notin Range(allowed_values)
    THEN << invalid_option_value(
                option_name, dict_get(option_dict, option_name), allowed_values) >>
    ELSE <<>>

\* ------------------------------------------------------------------ create
\* defaultdict(int): d[key] += 1
counter_add(d, key) ==
    dict_set(d, key, (IF dict_has(d, key) THEN dict_get(d, key) ELSE 0) + 1)

\* node.get("addrs", [])
node_addrs(node) == IF dict_has(node, "addrs") THEN dict_get(node, "addrs") ELSE <<>>

\* node.get("name")
node_name(node) == IF dict_has(node, "name") THEN dict_get(node, "name") ELSE PyNone

\* a name of create that no statement has bound
Unbound == "unbound"

\* the names of create where no call has run: the parameter node_list and the
\* locals of lines 31-48, with the addresses looked up and the exception
\* outcome the model keeps beside them
NoFrame ==
    [node_list |-> Unbound,
     report_items |-> Unbound,
     all_names_usable |-> Unbound,
     all_names_count |-> Unbound,
     all_addrs_count |-> Unbound,
     all_addrs_type |-> Unbound,
     addr_types_per_node |-> Unbound,
     lookups |-> <<>>,
     raised |-> FALSE]

\* lines 22-48: the call binds node_list to its argument, validates the
\* cluster name and the transport and makes the tallies empty. `frame` is what
\* the names held when the call began; each statement binds its name anew.
create_start(frame, cluster_name, node_list, transport) ==
    [frame EXCEPT
       !.node_list = node_list,
       !.report_items =
           value_not_empty("name", "a cluster name", "cluster name",
                           << <<"name", cluster_name>>, <<"transport", transport>> >>)
           \o value_in("transport", TRANSPORTS_ALL,
                       << <<"name", cluster_name>>, <<"transport", transport>> >>),
       !.all_names_usable = TRUE,
       !.all_names_count = <<>>,
       !.all_addrs_count = <<>>,
       !.all_addrs_type = <<>>,
       !.addr_types_per_node = <<>>,
       !.lookups = <<>>,
       !.raised = FALSE]

\* line 65: "name" not in node or not node["name"]
name_unusable(node) == ~dict_has(node, "name") \/ dict_get(node, "name") = ""

\* lines 51-70: the node's name
create_node_name(st, i, node) ==
    [st EXCEPT
       !.report_items =
           @ \o is_required("name", "node " \o ToString(i), node)
             \o value_not_empty("name", "a non-empty string",
                                "node " \o ToString(i) \o " name", node),
       !.all_names_usable = IF name_unusable(node) THEN FALSE ELSE @,
       !.all_names_count =
           IF name_unusable(node) THEN @ ELSE counter_add(@, dict_get(node, "name"))]

min_addr_count(transport) ==
    IF transport \in Range(TRANSPORTS_KNET) THEN LINKS_KNET_MIN ELSE LINKS_UDP_MIN

max_addr_count(transport) ==
    IF transport \in Range(TRANSPORTS_KNET) THEN LINKS_KNET_MAX ELSE LINKS_UDP_MAX

\* lines 79-83 with `and` for `or`
bad_addr_count_and(addr_count, min_count, max_count) ==
    addr_count < min_count /\ addr_count > max_count

\* lines 79-83
bad_addr_count(addr_count, min_count, max_count) ==
    addr_count < min_count \/ addr_count > max_count

\* lines 71-92: the number of the node's addresses
create_node_count(st, i, node, transport) ==
    IF /\ transport \in Range(TRANSPORTS_KNET \o TRANSPORTS_UDP)
       /\ bad_addr_count(Len(node_addrs(node)),
                         min_addr_count(transport), max_addr_count(transport))
    THEN [st EXCEPT !.report_items =
              Append(@, corosync_bad_node_addresses_count(
                            Len(node_addrs(node)),
                            min_addr_count(transport), max_addr_count(transport),
                            node_name(node), i))]
    ELSE st

\* lines 95-97 without line 96: every occurrence is classified anew
classify_addr_no_memo(st, addr) ==
    [st EXCEPT
       !.all_addrs_count = counter_add(@, addr),
       !.all_addrs_type =
           IF get_address_type(addr) = UnicodeErrorRaised
           THEN @ ELSE dict_set(@, addr, get_address_type(addr)),
       !.lookups =
           IF is_ipv4_address(addr) \/ is_ipv6_address(addr)
           THEN @ ELSE Append(@, addr),
       !.raised = (get_address_type(addr) = UnicodeErrorRaised)]

\* lines 95-97: count the address; classify it unless it is already known.
\* lookups lists the addresses given to socket.getaddrinfo. An exception that
\* leaves _get_address_type leaves create: raised is set and nothing is stored.
classify_addr(st, addr) ==
    [st EXCEPT
       !.all_addrs_count = counter_add(@, addr),
       !.all_addrs_type =
           IF dict_has(@, addr) \/ get_address_type(addr) = UnicodeErrorRaised
           THEN @ ELSE dict_set(@, addr, get_address_type(addr)),
       !.lookups =
           IF \/ dict_has(st.all_addrs_type, addr)
              \/ is_ipv4_address(addr)
              \/ is_ipv6_address(addr)
           THEN @ ELSE Append(@, addr),
       !.raised =
           /\ ~dict_has(st.all_addrs_type, addr)
           /\ get_address_type(addr) = UnicodeErrorRaised]

\* lines 93-99: the types of the node's addresses
RECURSIVE classify_addrs(_, _, _)
classify_addrs_next(st, addrs, addr_types) ==
    IF st.raised THEN st
    ELSE classify_addrs(
             st, Tail(addrs),
             Append(addr_types, dict_get(st.all_addrs_type, Head(addrs))))

classify_addrs(st, addrs, addr_types) ==
    IF addrs = <<>>
    THEN [st EXCEPT !.addr_types_per_node = Append(@, addr_types)]
    ELSE classify_addrs_next(classify_addr(st, Head(addrs)), addrs, addr_types)

\* lines 50-99: one node
create_node(st, i, node, transport) ==
    classify_addrs(
        create_node_count(create_node_name(st, i, node), i, node, transport),
        node_addrs(node), <<>>)

RECURSIVE create_nodes(_, _, _, _)
create_nodes(st, node_list, i, transport) ==
    IF node_list = <<>> \/ st.raised THEN st
    ELSE create_nodes(
             create_node(st, i, Head(node_list), transport),
             Tail(node_list), i + 1, transport)

\* the keys of a tally counted more than n times
keys_counted_over(d, n) == { d[i][1] : i \in { j \in 1..Len(d) : d[j][2] > n } }

\* lines 101-104 taking every looked-up name for an unresolvable one
unresolvable_addresses_all_names(st) ==
    { st.all_addrs_type[i][1] :
        i \in { j \in 1..Len(st.all_addrs_type) :
                  st.all_addrs_type[j][2] \in { "unresolvable", "FQDN" } } }

\* lines 101-104
unresolvable_addresses(st) ==
    { st.all_addrs_type[i][1] :
        i \in { j \in 1..Len(st.all_addrs_type) :
                  st.all_addrs_type[j][2] = "unresolvable" } }

\* lines 105-117
unresolvable_reports(st, force_unresolvable) ==
    IF unresolvable_addresses(st) = {} THEN <<>>
    ELSE << node_addresses_unresolvable(
                unresolvable_addresses(st),
                IF force_unresolvable THEN WARNING ELSE ERROR,
                IF force_unresolvable THEN NoForce
                                      ELSE FORCE_NODE_ADDRESSES_UNRESOLVABLE) >>

\* lines 118-120 taking a name used at all for a name used twice
non_unique_names_any(st) ==
    keys_counted_over(st.all_names_count, 0)

\* lines 118-120
non_unique_names(st) ==
    keys_counted_over(st.all_names_count, 1)

\* lines 121-125
name_duplication_reports(st) ==
    IF non_unique_names(st) = {} THEN <<>>
    ELSE << corosync_node_name_duplication(non_unique_names(st)) >>

\* lines 126-128
non_unique_addrs(st) ==
    keys_counted_over(st.all_addrs_count, 1)

\* lines 129-132
address_duplication_reports(st) ==
    IF non_unique_addrs(st) = {} THEN <<>>
    ELSE << corosync_node_address_duplication(non_unique_addrs(st)) >>

\* lines 121-122, 137: all_names_usable as the name-keyed checks find it
names_usable(st) == st.all_names_usable /\ non_unique_names(st) = {}

\* lines 138-140
RECURSIVE node_addr_count(_)
node_addr_count(node_list) ==
    IF node_list = <<>> THEN <<>>
    ELSE dict_update(
             << <<dict_get(Head(node_list), "name"), Len(node_addrs(Head(node_list)))>> >>,
             node_addr_count(Tail(node_list)))

\* Counter(node_addr_count.values()).keys()
dict_values(d) == { d[i][2] : i \in 1..Len(d) }

\* lines 137-149: the report is made and not added to report_items
count_mismatch_reports(st, node_list, transport) ==
    IF /\ names_usable(st)
       /\ transport \notin Range(TRANSPORTS_UDP)
       /\ Cardinality(dict_values(node_addr_count(node_list))) > 1
    THEN << corosync_node_address_count_mismatch(node_addr_count(node_list)) >>
    ELSE <<>>

\* zip_longest(*addr_types_per_node): the number of link columns
link_columns(addr_types_per_node) ==
    IF addr_types_per_node = <<>> THEN 0
    ELSE CHOOSE n \in { Len(addr_types_per_node[i]) : i \in 1..Len(addr_types_per_node) } :
           \A i \in 1..Len(addr_types_per_node) : Len(addr_types_per_node[i]) <= n

\* the types in link column `link` (0-based), short lists padded with None
link_addr_types(addr_types_per_node, link) ==
    { IF link + 1 <= Len(addr_types_per_node[i])
      THEN addr_types_per_node[i][link + 1] ELSE PyNone :
        i \in 1..Len(addr_types_per_node) }

\* lines 152-155 numbering the links from 1
links_ip_mismatch_one_based(addr_types_per_node) ==
    LET Mixed(link) ==
            /\ "IPv6" \in link_addr_types(addr_types_per_node, link - 1)
            /\ "IPv4" \in link_addr_types(addr_types_per_node, link - 1)
    IN SelectSeq([ n \in 1..link_columns(addr_types_per_node) |-> n ], Mixed)

\* lines 152-155
links_ip_mismatch(addr_types_per_node) ==
    LET Mixed(link) ==
            /\ "IPv6" \in link_addr_types(addr_types_per_node, link)
            /\ "IPv4" \in link_addr_types(addr_types_per_node, link)
    IN SelectSeq([ n \in 1..link_columns(addr_types_per_node) |-> n - 1 ], Mixed)

\* lines 156-159
ip_mismatch_reports(st) ==
    IF links_ip_mismatch(st.addr_types_per_node) = <<>> THEN <<>>
    ELSE << corosync_ip_version_mismatch_in_links(
                links_ip_mismatch(st.addr_types_per_node)) >>

\* lines 101-159: the checks over all nodes append their reports to
\* report_items (lines 111, 123, 130, 157) and line 122 clears
\* all_names_usable when a name is used twice; the other names stay as the
\* loop of line 50 left them
create_checks(st, force_unresolvable) ==
    [st EXCEPT
       !.report_items =
           @ \o unresolvable_reports(st, force_unresolvable)
             \o name_duplication_reports(st)
             \o address_duplication_reports(st)
             \o ip_mismatch_reports(st),
       !.all_names_usable = names_usable(st)]

\* line 161, `checked` being the names after the checks of lines 101-159 and
\* `st` the names after the loop. Beside the returned report_items the result
\* tells whether the name-keyed block (lines 138-149) was run, the reports
\* that were made and not returned, the types given to the addresses, the
\* addresses that were looked up, and the local all_addrs_type, the node_list
\* argument and the names of the call (frame) as the call leaves them.
create_returned(st, checked, transport) ==
    [raised |-> FALSE,
     report_items |-> checked.report_items,
     name_keyed_checks_run |-> checked.all_names_usable,
     discarded |-> count_mismatch_reports(st, st.node_list, transport),
     addr_types_per_node |-> st.addr_types_per_node,
     all_addrs_type |-> st.all_addrs_type,
     node_list |-> st.node_list,
     lookups |-> st.lookups,
     frame |-> checked]

\* lines 101-161, or the exception that left the loop: nothing is returned
\* and the names stay as the exception found them
create_finish(st, transport, force_unresolvable) ==
    IF st.raised
    THEN [raised |-> TRUE,
          report_items |-> <<>>,
          name_keyed_checks_run |-> FALSE,
          discarded |-> <<>>,
          addr_types_per_node |-> <<>>,
          all_addrs_type |-> st.all_addrs_type,
          node_list |-> st.node_list,
          lookups |-> st.lookups,
          frame |-> st]
    ELSE create_returned(st, create_checks(st, force_unresolvable), transport)

\* lines 22-161 run over the names as `frame` holds them; the loop of line 50
\* goes through the list the parameter is bound to
create_call(frame, cluster_name, node_list, transport, force_unresolvable) ==
    create_finish(
        create_nodes(
            create_start(frame, cluster_name, node_list, transport),
            create_start(frame, cluster_name, node_list, transport).node_list,
            1, transport),
        transport, force_unresolvable)

create(cluster_name, node_list, transport, force_unresolvable) ==
    create_call(NoFrame, cluster_name, node_list, transport, force_unresolvable)

\* a later call where line 47 is left out: all_addrs_type keeps what the
\* earlier call stored in it
create_again_sharing_types(earlier, cluster_name, node_list, transport, force_unresolvable) ==
    create_finish(
        create_nodes(
            [create_start(earlier.frame, cluster_name, node_list, transport)
                EXCEPT !.all_addrs_type = earlier.frame.all_addrs_type],
            node_list, 1, transport),
        transport, force_unresolvable)

\* a call that follows a call with the result `earlier` in the same process.
\* It runs over the names as the earlier call left them, be it that the call
\* ended at line 161 or that an exception left it half way: whatever of them
\* the process keeps, lines 22-48 bind each before the body reads it.
create_again(earlier, cluster_name, node_list, transport, force_unresolvable) ==
    create_call(earlier.frame, cluster_name, node_list, transport, force_unresolvable)

\* ------------------------------------------------------------ create inputs
ClusterNames == { "", "c1" }

TransportInputs == { "knet", "udp", "udpu", "tcp" }

\* the "name" entry of a node: a name; none or an empty name
NodeNameInputs == { << <<"name", "n1">> >>, << <<"name", "n2">> >> }

NoNodeNameInputs == { <<>>, << <<"name", "">> >> }

\* the "addrs" entry of a node: none; one address of each kind;
\* two addresses (a name and IPv4, IPv4 and IPv6, IPv6 and IPv4); nine addresses
NodeAddrsInputs ==
    { <<>> }
    \cup { << <<"addrs", addrs>> >> :
             addrs \in { << "10.0.0.1" >>,
                         << "10.0.0.2" >>,
                         << "::1" >>,
                         << "nohost" >>,
                         << "a..b" >>,
                         << "host1", "10.0.0.1" >>,
                         << "10.0.0.2", "::1" >>,
                         << "::1", "10.0.0.1" >>,
                         << "10.0.0.1", "10.0.0.2", "10.0.0.3", "10.0.0.4", "10.0.0.5",
                            "10.0.0.6", "10.0.0.7", "10.0.0.8", "10.0.0.9" >> } }

\* the "addrs" entries the second named node is given
SecondNodeAddrsInputs ==
    { << <<"addrs", addrs>> >> :
        addrs \in { << "10.0.0.1" >>,
                    << "10.0.0.2" >>,
                    << "::1" >>,
                    << "10.0.0.2", "::1" >>,
                    << "::1", "10.0.0.1" >> } }

\* node n1 has any of the address entries, node n2 one of its own; a node
\* without a usable name has no "addrs" entry or one address
NodeInputs ==
    { p[1] \o p[2] :
        p \in { q \in NodeNameInputs \X NodeAddrsInputs :
                  q[1] = << <<"name", "n1">> >> \/ q[2] \in SecondNodeAddrsInputs } }
    \cup { name \o addrs :
             name \in NoNodeNameInputs,
             addrs \in { <<>>, << <<"addrs", << "10.0.0.1" >> >> >> } }

NodeListInputs == SeqsUpTo(NodeInputs, MaxNodes)

CreateWith(cluster_names, transports) ==
    /\ Idle
    /\ \E cluster_name \in cluster_names, node_list \in NodeListInputs,
          transport \in transports, force_unresolvable \in BOOLEAN :
        call' = [op |-> "create",
                 args |-> [cluster_name |-> cluster_name, node_list |-> node_list,
                           transport |-> transport,
                           force_unresolvable |-> force_unresolvable],
                 ret |-> create(cluster_name, node_list, transport, force_unresolvable)]
    /\ UNCHANGED cib

Create == CreateWith(ClusterNames, TransportInputs)

\* the caller calls create once more with the arguments of the call that just
\* ended, as that call left them
CreateAgain ==
    /\ call.op = "create"
    /\ call' = [op |-> "create_again",
                args |-> [call.args EXCEPT !.node_list = call.ret.node_list],
                earlier |-> call,
                ret |-> create_again(call.ret, call.args.cluster_name,
                                     call.ret.node_list, call.args.transport,
                                     call.args.force_unresolvable)]
    /\ UNCHANGED cib

InitCreate ==
    /\ cib = [resources |-> <<>>, constraints |-> <<>>]
    /\ call = NoCall

NextCreate ==
    \/ Create
    \/ Return

SpecCreate == InitCreate /\ [][NextCreate]_vars

\* ---------------------------------------------------------------- C9, C10
\* a call of create that returned its reports
CalledCreate == call.op = "create" /\ ~call.ret.raised

\* a call of create that an exception ended
CreateRaised == call.op = "create" /\ call.ret.raised

HasError(report_items) ==
    \E i \in 1..Len(report_items) : report_items[i].severity = ERROR

NodeHasName(node) ==
    \E k \in 1..Len(node) : node[k][1] = "name" /\ node[k][2] # ""

NameOf(node) == node[CHOOSE k \in 1..Len(node) : node[k][1] = "name"][2]

AddrsOf(node) ==
    IF \E k \in 1..Len(node) : node[k][1] = "addrs"
    THEN node[CHOOSE k \in 1..Len(node) : node[k][1] = "addrs"][2]
    ELSE <<>>

NamesDistinct(node_list) ==
    \A i, j \in 1..Len(node_list) :
        (i # j /\ NodeHasName(node_list[i]) /\ NodeHasName(node_list[j]))
            => NameOf(node_list[i]) # NameOf(node_list[j])

\* the places <<node, position>> of the addresses
AddrPlaces(node_list) ==
    { <<i, k>> \in (1..Len(node_list)) \X (1..9) : k <= Len(AddrsOf(node_list[i])) }

AddrsDistinct(node_list) ==
    \A p, q \in AddrPlaces(node_list) :
        p # q => AddrsOf(node_list[p[1]])[p[2]] # AddrsOf(node_list[q[1]])[q[2]]

CountWithinBounds(node, transport) ==
    \/ /\ transport = "knet"
       /\ Len(AddrsOf(node)) \in LINKS_KNET_MIN..LINKS_KNET_MAX
    \/ /\ transport \in { "udp", "udpu" }
       /\ Len(AddrsOf(node)) \in LINKS_UDP_MIN..LINKS_UDP_MAX

LinksUniform(node_list) ==
    \A p, q \in AddrPlaces(node_list) :
        p[2] = q[2] =>
            ~ /\ AddrsOf(node_list[p[1]])[p[2]] \in IPv4Literals
              /\ AddrsOf(node_list[q[1]])[q[2]] \in IPv6Literals

\* C9: when create returns no report of severity ERROR, every node has a
\* non-empty name, the names are pairwise distinct, no address occurs twice
\* over all nodes, every node's address count is within the bounds of the
\* transport's family, and no link index has an IPv4 literal in one node and
\* an IPv6 literal in another.
C9_NoErrorMeansValidNodeList ==
    (CalledCreate /\ ~HasError(call.ret.report_items)) =>
        /\ \A i \in 1..Len(call.args.node_list) :
              /\ NodeHasName(call.args.node_list[i])
              /\ CountWithinBounds(call.args.node_list[i], call.args.transport)
        /\ NamesDistinct(call.args.node_list)
        /\ AddrsDistinct(call.args.node_list)
        /\ LinksUniform(call.args.node_list)

\* two nodes with a two-address link each pass with nothing but a warning
C9_Witness ==
    /\ CalledCreate
    /\ ~HasError(call.ret.report_items)
    /\ Len(call.args.node_list) = 2
    /\ \E i \in 1..2 : Len(AddrsOf(call.args.node_list[i])) = 2
    /\ \E i \in 1..Len(call.ret.report_items) :
          call.ret.report_items[i].severity = WARNING

ReportsOf(report_items, code) ==
    { i \in 1..Len(report_items) : report_items[i].code = code }

NamesUsedMoreThanOnce(node_list) ==
    { NameOf(node_list[i]) :
        i \in { j \in 1..Len(node_list) :
                  /\ NodeHasName(node_list[j])
                  /\ \E k \in 1..Len(node_list) :
                        /\ k # j
                        /\ NodeHasName(node_list[k])
                        /\ NameOf(node_list[k]) = NameOf(node_list[j]) } }

\* C10: create returns one duplicate-node-name report, listing exactly the
\* names used more than once, when some non-empty name is used by more than
\* one node, and none otherwise; a node whose address count is within the
\* bounds of the transport's family gets no address-count report; and when a
\* name is missing, empty or duplicated the name-keyed check of equal address
\* counts is not run.
C10_NameDuplicationAndCounts ==
    CalledCreate =>
        /\ IF NamesUsedMoreThanOnce(call.args.node_list) # {}
           THEN /\ Cardinality(ReportsOf(call.ret.report_items,
                                         "corosync_node_name_duplication")) = 1
                /\ \A i \in ReportsOf(call.ret.report_items,
                                      "corosync_node_name_duplication") :
                      call.ret.report_items[i].info.name_list
                          = NamesUsedMoreThanOnce(call.args.node_list)
           ELSE ReportsOf(call.ret.report_items,
                          "corosync_node_name_duplication") = {}
        /\ \A n \in 1..Len(call.args.node_list) :
              CountWithinBounds(call.args.node_list[n], call.args.transport) =>
                  \A i \in ReportsOf(call.ret.report_items,
                                     "corosync_bad_node_addresses_count") :
                      call.ret.report_items[i].info.node_id # n
        /\ ( \/ \E n \in 1..Len(call.args.node_list) :
                   ~NodeHasName(call.args.node_list[n])
             \/ NamesUsedMoreThanOnce(call.args.node_list) # {} )
           => /\ ~call.ret.name_keyed_checks_run
              /\ call.ret.discarded = <<>>

\* create("c1", [n1: 10.0.0.1, n1: 10.0.0.2], "knet")
C10_Witness ==
    /\ CalledCreate
    /\ call.args.cluster_name = "c1"
    /\ call.args.transport = "knet"
    /\ AddrsDistinct(call.args.node_list)
    /\ NamesUsedMoreThanOnce(call.args.node_list) = { "n1" }
    /\ \A n \in 1..Len(call.args.node_list) :
          Len(AddrsOf(call.args.node_list[n])) = 1
    /\ Cardinality(ReportsOf(call.ret.report_items,
                             "corosync_node_name_duplication")) = 1
    /\ ReportsOf(call.ret.report_items, "corosync_bad_node_addresses_count") = {}
    /\ ~call.ret.name_keyed_checks_run

\* --------------------------------------------------------------------- C11
AllNamed(node_list) == \A i \in 1..Len(node_list) : NodeHasName(node_list[i])

CountsDiffer(node_list) ==
    \E i, j \in 1..Len(node_list) :
        Len(AddrsOf(node_list[i])) # Len(AddrsOf(node_list[j]))

\* the case of the address-count comparison: a transport outside udp/udpu,
\* every node named, names distinct, two nodes with different address counts
CountMismatchCase ==
    /\ CalledCreate
    /\ call.args.transport \notin { "udp", "udpu" }
    /\ AllNamed(call.args.node_list)
    /\ NamesDistinct(call.args.node_list)
    /\ CountsDiffer(call.args.node_list)

\* C11: in the case of the address-count comparison the report sequence
\* returned by create contains an address-count-mismatch report.
C11_CountMismatchReturned ==
    CountMismatchCase =>
        ReportsOf(call.ret.report_items, "corosync_node_address_count_mismatch") # {}

\* C11, as the code behaves: the address-count-mismatch report is made, with
\* the per-node address counts, exactly in that case, and create never
\* returns it.
C11_CountMismatchMadeAndDropped ==
    CalledCreate =>
        /\ ReportsOf(call.ret.report_items, "corosync_node_address_count_mismatch") = {}
        /\ IF CountMismatchCase
           THEN /\ Len(call.ret.discarded) = 1
                /\ call.ret.discarded[1].code = "corosync_node_address_count_mismatch"
                /\ call.ret.discarded[1].info.node_addr_count
                       = [ i \in 1..Len(call.args.node_list) |->
                             << NameOf(call.args.node_list[i]),
                                Len(AddrsOf(call.args.node_list[i])) >> ]
           ELSE call.ret.discarded = <<>>

\* create("c1", [n1: one address, n2: two addresses], "knet") returns no report
C11_Witness ==
    /\ CountMismatchCase
    /\ call.args.transport = "knet"
    /\ call.args.cluster_name = "c1"
    /\ call.ret.report_items = <<>>
    /\ call.ret.discarded # <<>>

\* --------------------------------------------------------------------- C12
\* the 0-based link indices where one node has an IPv4 literal and another
\* node an IPv6 literal
HasLiteralAt(node, k, literals) ==
    k <= Len(AddrsOf(node)) /\ AddrsOf(node)[k] \in literals

MixedLinks(node_list) ==
    { k - 1 :
        k \in { l \in 1..9 :
                  /\ \E i \in 1..Len(node_list) :
                        HasLiteralAt(node_list[i], l, IPv4Literals)
                  /\ \E j \in 1..Len(node_list) :
                        HasLiteralAt(node_list[j], l, IPv6Literals) } }

Ascending(seq) == \A i, j \in 1..Len(seq) : i < j => seq[i] < seq[j]

\* C12: create returns an IP-version-mismatch report exactly when some link
\* index has an IPv4 literal in one node and an IPv6 literal in another; the
\* one report lists exactly those link indices, 0-based and ascending. Short
\* address lists and host names never make a mismatch, and missing or
\* repeated node names do not stop the check.
C12_IpMismatchExactlyMixedLinks ==
    CalledCreate =>
        IF MixedLinks(call.args.node_list) = {}
        THEN ReportsOf(call.ret.report_items,
                       "corosync_ip_version_mismatch_in_links") = {}
        ELSE /\ Cardinality(ReportsOf(call.ret.report_items,
                                      "corosync_ip_version_mismatch_in_links")) = 1
             /\ \A i \in ReportsOf(call.ret.report_items,
                                   "corosync_ip_version_mismatch_in_links") :
                   /\ Range(call.ret.report_items[i].info.link_numbers)
                          = MixedLinks(call.args.node_list)
                   /\ Ascending(call.ret.report_items[i].info.link_numbers)

\* two nodes of the same name mix the families at both links
C12_Witness ==
    /\ CalledCreate
    /\ NamesUsedMoreThanOnce(call.args.node_list) # {}
    /\ \E i \in 1..Len(call.ret.report_items) :
          /\ call.ret.report_items[i].code = "corosync_ip_version_mismatch_in_links"
          /\ call.ret.report_items[i].info.link_numbers = << 0, 1 >>

\* --------------------------------------------------------------------- C13
AddrsIn(node_list) ==
    { AddrsOf(node_list[p[1]])[p[2]] : p \in AddrPlaces(node_list) }

\* the addresses of the node list that are no literal and that the resolver
\* does not know
UnresolvableIn(node_list) ==
    { a \in AddrsIn(node_list) :
        a \notin IPv4Literals \cup IPv6Literals \cup ResolvableNames \cup MalformedNames }

\* C13: create returns one unresolvable-addresses report, listing exactly the
\* unresolvable addresses, when there is one, and none otherwise; the report
\* is an ERROR with the force code FORCE_NODE_ADDRESSES_UNRESOLVABLE when
\* force_unresolvable is false and a WARNING with no force code when it is
\* true.
C13_UnresolvableReport ==
    CalledCreate =>
        IF UnresolvableIn(call.args.node_list) = {}
        THEN ReportsOf(call.ret.report_items, "node_addresses_unresolvable") = {}
        ELSE /\ Cardinality(ReportsOf(call.ret.report_items,
                                      "node_addresses_unresolvable")) = 1
             /\ \A i \in ReportsOf(call.ret.report_items,
                                   "node_addresses_unresolvable") :
                   /\ call.ret.report_items[i].info.address_list
                          = UnresolvableIn(call.args.node_list)
                   /\ IF call.args.force_unresolvable
                      THEN /\ call.ret.report_items[i].severity = WARNING
                           /\ call.ret.report_items[i].forceable = NoForce
                      ELSE /\ call.ret.report_items[i].severity = ERROR
                           /\ call.ret.report_items[i].forceable
                                  = FORCE_NODE_ADDRESSES_UNRESOLVABLE

\* a forced call with an unresolvable name in one node and a resolvable name
\* in the other
C13_Witness ==
    /\ CalledCreate
    /\ call.args.force_unresolvable
    /\ UnresolvableIn(call.args.node_list) = { "nohost" }
    /\ "host1" \in AddrsIn(call.args.node_list)
    /\ \E i \in 1..Len(call.ret.report_items) :
          /\ call.ret.report_items[i].code = "node_addresses_unresolvable"
          /\ call.ret.report_items[i].severity = WARNING

\* --------------------------------------------------------------------- C17
\* the addresses of the node list that are no literal and whose lookup fails,
\* in whatever way
LookupFailsIn(node_list) ==
    { a \in AddrsIn(node_list) :
        a \notin IPv4Literals \cup IPv6Literals \cup ResolvableNames }

\* C17: every failure of the name lookup classifies the address as
\* unresolvable; the failure never leaves create, which returns its report
\* sequence with the failed addresses in the unresolvable-addresses report.
C17_LookupFailureNeverPropagates ==
    call.op = "create" =>
        /\ ~call.ret.raised
        /\ LookupFailsIn(call.args.node_list) # {} =>
              \E i \in 1..Len(call.ret.report_items) :
                  /\ call.ret.report_items[i].code = "node_addresses_unresolvable"
                  /\ call.ret.report_items[i].info.address_list
                         = LookupFailsIn(call.args.node_list)

\* C17, as the code behaves: only socket.gaierror is caught. A lookup that
\* fails with another exception ends create with that exception and no
\* report is returned; create returns exactly when no address of the node
\* list is such a name.
C17_OnlyGaierrorCaught ==
    call.op = "create" =>
        /\ call.ret.raised = (AddrsIn(call.args.node_list) \cap MalformedNames # {})
        /\ call.ret.raised =>
              /\ call.ret.report_items = <<>>
              /\ call.ret.lookups # <<>>
              /\ call.ret.lookups[Len(call.ret.lookups)] \in MalformedNames

\* the second node's address ends the call although the first node alone
\* already has an unresolvable address to report
C17_Witness ==
    /\ CreateRaised
    /\ Len(call.args.node_list) = 2
    /\ AddrsOf(call.args.node_list[1]) = << "nohost" >>
    /\ AddrsOf(call.args.node_list[2]) = << "a..b" >>
    /\ call.ret.lookups = << "nohost", "a..b" >>

\* --------------------------------------------------------------------- C18
NoRepeats(seq) == \A i, j \in 1..Len(seq) : i # j => seq[i] # seq[j]

\* equal addresses of two address lists have equal types
SameAddrSameType(addrs, types, other_addrs, other_types) ==
    \A k \in 1..Len(addrs), l \in 1..Len(other_addrs) :
        addrs[k] = other_addrs[l] => types[k] = other_types[l]

\* C18: within one call of create each distinct address is looked up by name
\* at most once (and exactly once when it is no literal), however often the
\* node list repeats it, and all occurrences of an address get the same type.
C18_EachAddressClassifiedOnce ==
    /\ call.op = "create" => NoRepeats(call.ret.lookups)
    /\ CalledCreate =>
          /\ Range(call.ret.lookups)
                 = AddrsIn(call.args.node_list) \ (IPv4Literals \cup IPv6Literals)
          /\ Len(call.ret.addr_types_per_node) = Len(call.args.node_list)
          /\ \A i \in 1..Len(call.args.node_list) :
                /\ Len(call.ret.addr_types_per_node[i])
                       = Len(AddrsOf(call.args.node_list[i]))
                /\ Range(call.ret.addr_types_per_node[i])
                       \subseteq { "IPv4", "IPv6", "FQDN", "unresolvable" }
          /\ \A i, j \in 1..Len(call.args.node_list) :
                SameAddrSameType(AddrsOf(call.args.node_list[i]),
                                 call.ret.addr_types_per_node[i],
                                 AddrsOf(call.args.node_list[j]),
                                 call.ret.addr_types_per_node[j])

\* two nodes give the same host name: one lookup
C18_Witness ==
    /\ CalledCreate
    /\ Len(call.args.node_list) = 2
    /\ AddrsOf(call.args.node_list[1]) = << "host1", "10.0.0.1" >>
    /\ AddrsOf(call.args.node_list[2]) = << "host1", "10.0.0.1" >>
    /\ call.ret.lookups = << "host1" >>
    /\ call.ret.addr_types_per_node = << << "FQDN", "IPv4" >>, << "FQDN", "IPv4" >> >>

\* --------------------------------------------------------------------- C19
\* two calls of create in a row, with one cluster name and one transport of
\* each family
InitCreateTwice == InitCreate

NextCreateTwice ==
    \/ CreateWith({ "c1" }, { "knet", "udp" })
    \/ CreateAgain
    \/ Return

SpecCreateTwice == InitCreateTwice /\ [][NextCreateTwice]_vars

\* the addresses of a node list, in the order the loops of lines 50 and 94
\* meet them
RECURSIVE AddrsInOrder(_)
AddrsInOrder(node_list) ==
    IF node_list = <<>> THEN <<>>
    ELSE node_addrs(Head(node_list)) \o AddrsInOrder(Tail(node_list))

\* the first occurrences of the host names among addrs, up to and with the
\* first malformed one: what a call that knows no address has to look up
RECURSIVE NamesToLookUp(_, _)
NamesToLookUp(addrs, seen) ==
    IF addrs = <<>> THEN <<>>
    ELSE IF Head(addrs) \in seen \cup IPv4Literals \cup IPv6Literals
         THEN NamesToLookUp(Tail(addrs), seen)
    ELSE IF Head(addrs) \in MalformedNames THEN << Head(addrs) >>
    ELSE << Head(addrs) >> \o NamesToLookUp(Tail(addrs), seen \cup { Head(addrs) })

CalledCreateAgain == call.op = "create_again"

\* C19: a call of create that follows a call with the same arguments, run
\* over everything the earlier call left behind, returns the same ordered
\* report sequence and ends the same way; it observes nothing of the earlier
\* call: it looks up every host name of its node list again, as a call that
\* knows no address does, and its tallies hold what one call counts; and
\* neither call changes its node_list argument.
C19_CreateTwiceSame ==
    CalledCreateAgain =>
        /\ call.earlier.ret.node_list = call.earlier.args.node_list
        /\ call.ret.node_list = call.earlier.args.node_list
        /\ call.ret.raised = call.earlier.ret.raised
        /\ call.ret.report_items = call.earlier.ret.report_items
        /\ call.ret.lookups = NamesToLookUp(AddrsInOrder(call.args.node_list), {})
        /\ call.ret.frame = call.earlier.ret.frame

\* the earlier call left the type of the unresolvable name and its tallies
\* behind; the later call looks the name up again and reports it again
C19_Witness ==
    /\ CalledCreateAgain
    /\ ~call.ret.raised
    /\ Len(call.args.node_list) = 2
    /\ dict_has(call.earlier.ret.frame.all_addrs_type, "nohost")
    /\ call.earlier.ret.frame.all_names_count # <<>>
    /\ call.earlier.ret.frame.report_items = call.earlier.ret.report_items
    /\ call.earlier.ret.lookups = << "nohost" >>
    /\ call.ret.lookups = << "nohost" >>
    /\ call.ret.report_items # <<>>
    /\ call.ret.report_items = call.earlier.ret.report_items

\* --------------------------------------------------------------------- C16
\* the references of a request, in the order they are resolved
RECURSIVE FlatIds(_)
FlatIds(resource_set_list) ==
    IF resource_set_list = <<>> THEN <<>>
    ELSE Head(resource_set_list).ids \o FlatIds(Tail(resource_set_list))

\* the reference cannot be used: no element has the id, or it is inside a
\* clone/master and may neither be replaced by it nor stay
RefViolates(tree, can_repair_to_clone, in_clone_allowed, id) ==
    \/ IndexOfId(tree, id) = 0
    \/ /\ ~IsCloneTag(tree, IndexOfId(tree, id))
       /\ NearestClone(tree, IndexOfId(tree, id)) # 0
       /\ ~can_repair_to_clone
       /\ ~in_clone_allowed

ViolatingRefs(tree, args) ==
    SelectSeq(FlatIds(args.resource_set_list),
              LAMBDA id : RefViolates(tree, args.can_repair_to_clone,
                                      args.in_clone_allowed, id))

\* the given option names outside attrib_names + "id", in the order given
InvalidNames(args) ==
    SelectSeq(dict_keys(args.options),
              LAMBDA name : name \notin Range(args.attrib_names) \cup {"id"})

CalledPrepareSets == call.op = "prepare_resource_set_list"

\* C16: no violation aborts prepare_resource_set_list or prepare_options: the
\* call returns, and every unusable reference and every option name that is
\* not allowed comes back as a report item of the same call.
C16_NoViolationAborts ==
    /\ CalledPrepareSets =>
          /\ ~call.ret.raised
          /\ Len(call.ret.reports) = Len(ViolatingRefs(cib, call.args))
    /\ CalledPrepareOptions =>
          (InvalidNames(call.args) # <<>> =>
              /\ ~call.ret.raised
              /\ Len(call.ret.reports) = Len(InvalidNames(call.args)))

\* C16, as the code has it: the first violation ends the call, which departs
\* from the validation pass the specification describes. prepare_resource_set_list
\* raises exactly when some reference cannot be used and prepare_options
\* raises when some option name is not allowed; the LibraryError carries one
\* ERROR report, for the first such reference or name in order; no value is
\* returned and later references and names are not looked at.
C16_FirstViolationRaises ==
    /\ CalledPrepareSets =>
          /\ call.ret.raised = (ViolatingRefs(cib, call.args) # <<>>)
          /\ call.ret.raised =>
                /\ call.ret.value = <<>>
                /\ Len(call.ret.reports) = 1
                /\ call.ret.reports[1].severity = ERROR
                /\ call.ret.reports[1].forceable = NoForce
                /\ call.ret.reports[1].info.resource_id
                       = ViolatingRefs(cib, call.args)[1]
          /\ ~call.ret.raised => call.ret.reports = <<>>
    /\ CalledPrepareOptions =>
          (InvalidNames(call.args) # <<>> =>
              /\ call.ret.raised
              /\ call.ret.value = <<>>
              /\ Len(call.ret.reports) = 1
              /\ call.ret.reports[1].severity = ERROR
              /\ call.ret.reports[1].info.option_name = InvalidNames(call.args)[1])

\* a request with an unknown id and then a resource inside a clone: the call
\* raised with the report of the unknown id alone
C16_Witness ==
    /\ CalledPrepareSets
    /\ Len(ViolatingRefs(cib, call.args)) = 2
    /\ call.ret.raised
    /\ Len(call.ret.reports) = 1
    /\ call.ret.reports[1].code = "resource_does_not_exist"

\* ======================================================================
\* corosync/config_validators.py: option validators
\* ======================================================================

\* ------------------------------------------------ pcs.common.report_codes
FORCE_OPTIONS == "FORCE_OPTIONS"

FORCE_QDEVICE_MODEL == "FORCE_QDEVICE_MODEL"

\* ---------------------------------------------------------------- reports
\* reports.get_problem_creator(force_code, is_forced): a forced problem is a
\* warning that carries no force code, the others are errors with the code
forced_severity(is_forced) == IF is_forced THEN WARNING ELSE ERROR

forced_forceable(force_code, is_forced) == IF is_forced THEN NoForce ELSE force_code

invalid_option_value_forceable(option_name, option_value, allowed_values, force_code, is_forced) ==
    ReportItem("invalid_option_value",
               forced_severity(is_forced), forced_forceable(force_code, is_forced),
               [option_name |-> option_name, option_value |-> option_value,
                allowed_values |-> allowed_values])

invalid_options(option_names, allowed_options, option_type, severity, forceable) ==
    ReportItem("invalid_options", severity, forceable,
               [option_names |-> option_names, allowed |-> allowed_options,
                option_type |-> option_type])

invalid_userdefined_options(option_names, allowed_description, option_type, severity, forceable) ==
    ReportItem("invalid_userdefined_options", severity, forceable,
               [option_names |-> option_names,
                allowed_description |-> allowed_description,
                option_type |-> option_type])

prerequisite_option_is_missing(option_name, prerequisite_name) ==
    ReportItem("prerequisite_option_is_missing", ERROR, NoForce,
               [option_name |-> option_name, prerequisite_name |-> prerequisite_name])

corosync_options_incompatible_with_qdevice(options) ==
    ReportItem("corosync_options_incompatible_with_qdevice", ERROR, NoForce,
               [options_names |-> options])

corosync_crypto_cipher_requires_crypto_hash ==
    ReportItem("corosync_crypto_cipher_requires_crypto_hash", ERROR, NoForce, <<>>)

\* --------------------------------------------------------- pcs.lib.validate
\* int(value) for the strings of the model: the decimal strings and their
\* values; every other string is no integer
IntegerStrings ==
    << <<"-1", -1>>, <<"0", 0>>, <<"1", 1>>, <<"4", 4>>, <<"6", 6>>, <<"7", 7>>,
       <<"8", 8>>,
       <<"10", 10>>, <<"255", 255>>, <<"256", 256>>, <<"999", 999>>,
       <<"1000", 1000>>, <<"65535", 65535>>, <<"65536", 65536>>,
       <<"120000", 120000>>, <<"120001", 120001>> >>

\* is_integer(value, at_least, None)
is_integer_at_least(value, at_least) ==
    dict_has(IntegerStrings, value) /\ dict_get(IntegerStrings, value) >= at_least

\* is_integer(value, at_least, at_most)
is_integer(value, at_least, at_most) ==
    /\ dict_has(IntegerStrings, value)
    /\ dict_get(IntegerStrings, value) >= at_least
    /\ dict_get(IntegerStrings, value) <= at_most

\* value_cond: the option, when given, must satisfy the predicate, whose
\* verdict on the given value is value_ok
value_cond(option_name, value_ok, value_type_or_enum, force_code, is_forced, option_dict) ==
    IF dict_has(option_dict, option_name) /\ ~value_ok
    THEN << invalid_option_value_forceable(
                option_name, dict_get(option_dict, option_name),
                value_type_or_enum, force_code, is_forced) >>
    ELSE <<>>

\* option_dict[option_name], or a value no check is made on when it is absent
value_of(option_dict, option_name) ==
    IF dict_has(option_dict, option_name) THEN dict_get(option_dict, option_name)
    ELSE PyNone

value_in_forceable(option_name, allowed_values, force_code, is_forced, option_dict) ==
    value_cond(option_name,
               value_of(option_dict, option_name) \in Range(allowed_values),
               allowed_values, force_code, is_forced, option_dict)

value_integer_in_range(option_name, at_least, at_most, force_code, is_forced, option_dict) ==
    value_cond(option_name,
               is_integer(value_of(option_dict, option_name), at_least, at_most),
               ToString(at_least) \o ".." \o ToString(at_most),
               force_code, is_forced, option_dict)

value_nonnegative_integer(option_name, force_code, is_forced, option_dict) ==
    value_cond(option_name,
               is_integer_at_least(value_of(option_dict, option_name), 0),
               "a non-negative integer", force_code, is_forced, option_dict)

value_positive_integer(option_name, force_code, is_forced, option_dict) ==
    value_cond(option_name,
               is_integer_at_least(value_of(option_dict, option_name), 1),
               "a positive integer", force_code, is_forced, option_dict)

value_port_number(option_name, force_code, is_forced, option_dict) ==
    value_cond(option_name,
               is_integer(value_of(option_dict, option_name), 1, 65535),
               "a port number (1-65535)", force_code, is_forced, option_dict)

\* value_empty_or_valid(option_name, validator): validator_reports is what
\* the wrapped validator gives on the option dict
value_empty_or_valid(option_name, validator_reports, option_dict) ==
    IF dict_has(option_dict, option_name) /\ dict_get(option_dict, option_name) = ""
    THEN <<>>
    ELSE validator_reports

depends_on_option(option_name, prerequisite_option, option_dict) ==
    IF dict_has(option_dict, option_name) /\ ~dict_has(option_dict, prerequisite_option)
    THEN << prerequisite_option_is_missing(option_name, prerequisite_option) >>
    ELSE <<>>

\* names_in: one report with the given names that are not allowed
names_in(allowed_name_list, name_list, option_type, force_code, is_forced) ==
    IF Range(name_list) \subseteq Range(allowed_name_list) THEN <<>>
    ELSE << invalid_options(
                Range(name_list) \ Range(allowed_name_list),
                allowed_name_list, option_type,
                forced_severity(is_forced), forced_forceable(force_code, is_forced)) >>

\* ----------------------------------------------- quorum device: net model
QDEVICE_NET_REQUIRED_OPTIONS == << "algorithm", "host" >>

QDEVICE_NET_OPTIONAL_OPTIONS ==
    << "connect_timeout", "force_ip_version", "port", "tie_breaker" >>

\* lines 1012-1036 without the case of the empty value
validate_qdevice_net_algorithm_not_empty(force_code, is_forced, option_dict) ==
    value_in_forceable(
        "algorithm", << "ffsplit", "lms" >>, force_code, is_forced, option_dict)

\* lines 1012-1036
validate_qdevice_net_algorithm(force_code, is_forced, option_dict) ==
    IF ~dict_has(option_dict, "algorithm") THEN <<>>
    ELSE IF dict_get(option_dict, "algorithm") = ""
    THEN << invalid_option_value(
                "algorithm", dict_get(option_dict, "algorithm"),
                << "ffsplit", "lms" >>) >>
    ELSE value_in_forceable(
             "algorithm", << "ffsplit", "lms" >>, force_code, is_forced, option_dict)

\* lines 1000-1009: [value_empty_or_valid(name, validator) for ...] when empty
\* values are allowed, the validator itself otherwise
empty_or_valid_if(allow_empty_values, option_name, validator_reports, option_dict) ==
    IF allow_empty_values
    THEN value_empty_or_valid(option_name, validator_reports, option_dict)
    ELSE validator_reports

\* lines 962-1010, run on the options
qdevice_model_net_options_validators(node_ids, allow_empty_values, force_options, options) ==
    value_not_empty("host", "a qdevice host address", "host", options)
    \o validate_qdevice_net_algorithm(FORCE_OPTIONS, force_options, options)
    \o empty_or_valid_if(allow_empty_values, "connect_timeout",
           value_integer_in_range("connect_timeout", 1000, 2 * 60 * 1000,
                                  FORCE_OPTIONS, force_options, options),
           options)
    \o empty_or_valid_if(allow_empty_values, "force_ip_version",
           value_in_forceable("force_ip_version", << "0", "4", "6" >>,
                              FORCE_OPTIONS, force_options, options),
           options)
    \o empty_or_valid_if(allow_empty_values, "port",
           value_port_number("port", FORCE_OPTIONS, force_options, options),
           options)
    \o empty_or_valid_if(allow_empty_values, "tie_breaker",
           value_in_forceable("tie_breaker", << "lowest", "highest" >> \o node_ids,
                              FORCE_OPTIONS, force_options, options),
           options)

\* lines 740-774
qdevice_add_model_net_options(options, node_ids, force_options) ==
    is_required("algorithm", "quorum device model", options)
    \o is_required("host", "quorum device model", options)
    \o qdevice_model_net_options_validators(node_ids, FALSE, force_options, options)
    \o names_in(QDEVICE_NET_REQUIRED_OPTIONS \o QDEVICE_NET_OPTIONAL_OPTIONS,
                dict_keys(options), "quorum device model",
                FORCE_OPTIONS, force_options)

\* lines 776-804
qdevice_update_model_net_options(options, node_ids, force_options) ==
    qdevice_model_net_options_validators(node_ids, TRUE, force_options, options)
    \o names_in(QDEVICE_NET_REQUIRED_OPTIONS \o QDEVICE_NET_OPTIONAL_OPTIONS,
                dict_keys(options), "quorum device model",
                FORCE_OPTIONS, force_options)

\* -------------------------------------------- quorum device: generic options
\* lines 806-829, run on the options
qdevice_generic_options_validators(allow_empty_values, force_options, options) ==
    empty_or_valid_if(allow_empty_values, "sync_timeout",
        value_positive_integer("sync_timeout", FORCE_OPTIONS, force_options, options),
        options)
    \o empty_or_valid_if(allow_empty_values, "timeout",
           value_positive_integer("timeout", FORCE_OPTIONS, force_options, options),
           options)

\* lines 842-849 with "model" taken as any other name that is not allowed
generic_invalid_options_with_model(options) ==
    SelectSeq(dict_keys(options),
              LAMBDA name : name \notin { "sync_timeout", "timeout" })

\* lines 842-849: the names that are not allowed, "model" apart
generic_invalid_options(options) ==
    SelectSeq(dict_keys(options),
              LAMBDA name : name \notin { "sync_timeout", "timeout", "model" })

\* lines 858-872 with the options force code left on the warning
generic_invalid_options_reports_code_kept(options, force_options) ==
    IF generic_invalid_options(options) = <<>> THEN <<>>
    ELSE << invalid_options(
                generic_invalid_options(options),
                << "sync_timeout", "timeout" >>, "quorum device",
                IF force_options THEN WARNING ELSE ERROR,
                FORCE_OPTIONS) >>

\* lines 858-872
generic_invalid_options_reports(options, force_options) ==
    IF generic_invalid_options(options) = <<>> THEN <<>>
    ELSE << invalid_options(
                generic_invalid_options(options),
                << "sync_timeout", "timeout" >>, "quorum device",
                IF force_options THEN WARNING ELSE ERROR,
                IF force_options THEN NoForce ELSE FORCE_OPTIONS) >>

\* lines 831-873
validate_qdevice_generic_options_names(options, force_options) ==
    (IF dict_has(options, "model")
     THEN << invalid_options(<< "model" >>, << "sync_timeout", "timeout" >>,
                             "quorum device", ERROR, NoForce) >>
     ELSE <<>>)
    \o generic_invalid_options_reports(options, force_options)

\* lines 638-658
qdevice_add_generic_options(options, force_options) ==
    qdevice_generic_options_validators(FALSE, force_options, options)
    \o validate_qdevice_generic_options_names(options, force_options)

\* lines 660-681
qdevice_update_generic_options(options, force_options) ==
    qdevice_generic_options_validators(TRUE, force_options, options)
    \o validate_qdevice_generic_options_names(options, force_options)

\* ------------------------------------------------ quorum device: heuristics
\* the option names of the model that start with "exec_"
ExecPrefixedNames == { "exec_ping", "exec_a.b" }

\* name.startswith("exec_")
startswith_exec(name) == name \in ExecPrefixedNames

\* constants.QUORUM_DEVICE_HEURISTICS_EXEC_NAME_RE.match(name) is not None:
\* exec_ and then no character of ".:{}#" and no whitespace
exec_name_re_match(name) == name \in { "exec_ping" }

\* lines 875-883 with every option counted as no exec option
heuristics_options_nonexec_all(options) == options

\* lines 875-883: options_nonexec
heuristics_options_nonexec(options) ==
    SelectSeq(options, LAMBDA item : ~startswith_exec(item[1]))

\* lines 875-883: options_exec
heuristics_options_exec(options) ==
    SelectSeq(options, LAMBDA item : startswith_exec(item[1]))

\* lines 885-917, run on the options
qdevice_heuristics_options_validators(allow_empty_values, force_options, options) ==
    empty_or_valid_if(allow_empty_values, "mode",
        value_in_forceable("mode", << "off", "on", "sync" >>,
                           FORCE_OPTIONS, force_options, options),
        options)
    \o empty_or_valid_if(allow_empty_values, "interval",
           value_positive_integer("interval", FORCE_OPTIONS, force_options, options),
           options)
    \o empty_or_valid_if(allow_empty_values, "sync_timeout",
           value_positive_integer("sync_timeout", FORCE_OPTIONS, force_options, options),
           options)
    \o empty_or_valid_if(allow_empty_values, "timeout",
           value_positive_integer("timeout", FORCE_OPTIONS, force_options, options),
           options)

\* lines 927-931: valid_options
valid_exec_options(options_exec) ==
    SelectSeq(dict_keys(options_exec), exec_name_re_match)

\* lines 927-931: not_valid_options
not_valid_exec_options(options_exec) ==
    SelectSeq(dict_keys(options_exec), LAMBDA name : ~exec_name_re_match(name))

\* lines 919-942: report_list
validate_heuristics_exec_option_names(options_exec) ==
    IF not_valid_exec_options(options_exec) = <<>> THEN <<>>
    ELSE << invalid_userdefined_options(
                not_valid_exec_options(options_exec),
                "exec_NAME cannot contain '.:{}#' and whitespace characters",
                "heuristics", ERROR, NoForce) >>

\* lines 944-960
validate_heuristics_noexec_option_names(options_nonexec, force_options) ==
    names_in(<< "interval", "mode", "sync_timeout", "timeout" >>,
             dict_keys(options_nonexec), "heuristics", FORCE_OPTIONS, force_options)

\* lines 697-700: a value_not_empty validator for each valid exec option
RECURSIVE exec_values_not_empty(_, _)
exec_values_not_empty(valid_options, options) ==
    IF valid_options = <<>> THEN <<>>
    ELSE value_not_empty(Head(valid_options), "a command to be run",
                         Head(valid_options), options)
         \o exec_values_not_empty(Tail(valid_options), options)

\* lines 683-710
qdevice_add_heuristics_options(options, force_options) ==
    qdevice_heuristics_options_validators(FALSE, force_options, options)
    \o exec_values_not_empty(
           valid_exec_options(heuristics_options_exec(options)), options)
    \o validate_heuristics_noexec_option_names(
           heuristics_options_nonexec(options), force_options)
    \o validate_heuristics_exec_option_names(heuristics_options_exec(options))

\* lines 712-738
qdevice_update_heuristics_options(options, force_options) ==
    qdevice_heuristics_options_validators(TRUE, force_options, options)
    \o validate_heuristics_noexec_option_names(
           heuristics_options_nonexec(options), force_options)
    \o validate_heuristics_exec_option_names(heuristics_options_exec(options))

\* ------------------------------------------- add / update of a quorum device
\* lines 579-593 validating the model options whatever the model is
add_quorum_device_model_reports_any_model(model, model_options, node_ids, force_model, force_options) ==
    qdevice_add_model_net_options(model_options, node_ids, force_options)
    \o value_in_forceable("model", << "net" >>, FORCE_QDEVICE_MODEL, force_model,
                          << <<"model", model>> >>)

\* lines 570-593
add_quorum_device_model_reports(model, model_options, node_ids, force_model, force_options) ==
    IF model \in { "net" }
    THEN qdevice_add_model_net_options(model_options, node_ids, force_options)
    ELSE value_in_forceable("model", << "net" >>, FORCE_QDEVICE_MODEL, force_model,
                            << <<"model", model>> >>)

\* lines 555-600
add_quorum_device(model, model_options, generic_options, heuristics_options, node_ids, force_model, force_options) ==
    add_quorum_device_model_reports(
        model, model_options, node_ids, force_model, force_options)
    \o qdevice_add_generic_options(generic_options, force_options)
    \o qdevice_add_heuristics_options(heuristics_options, force_options)

\* lines 602-636
update_quorum_device(model, model_options, generic_options, heuristics_options, node_ids, force_options) ==
    (IF model \in { "net" }
     THEN qdevice_update_model_net_options(model_options, node_ids, force_options)
     ELSE <<>>)
    \o qdevice_update_generic_options(generic_options, force_options)
    \o qdevice_update_heuristics_options(heuristics_options, force_options)

\* ----------------------------------------------------- quorum device inputs
QdeviceModels == { "net", "disk" }

NodeIds == << "1", "2" >>

\* model options: none; valid; empty required values; values outside their
\* sets and ranges; an empty optional value and an unknown name; a timeout
\* below its range
ModelOptionInputs ==
    { <<>>,
      << <<"algorithm", "ffsplit">>, <<"host", "qnetd">> >>,
      << <<"algorithm", "">>, <<"host", "">> >>,
      << <<"algorithm", "bad">>, <<"host", "qnetd">>, <<"port", "65536">>,
         <<"tie_breaker", "3">> >>,
      << <<"algorithm", "lms">>, <<"host", "qnetd">>, <<"connect_timeout", "">>,
         <<"tie_breaker", "1">>, <<"bad_option", "x">> >>,
      << <<"host", "qnetd">>, <<"connect_timeout", "999">>,
         <<"force_ip_version", "5">> >> }

GenericOptionInputs ==
    { <<>>,
      << <<"sync_timeout", "0">>, <<"timeout", "10">> >>,
      << <<"model", "net">>, <<"bad_option", "x">>, <<"timeout", "">> >>,
      << <<"model", "disk">>, <<"sync_timeout", "1000">> >>,
      << <<"bad_option", "x">>, <<"sync_timeout", "10">>, <<"other_option", "y">> >> }

HeuristicsOptionInputs ==
    { <<>>,
      << <<"mode", "on">>, <<"exec_ping", "ping -q -c 1 host">> >>,
      << <<"mode", "bad">>, <<"interval", "0">>, <<"exec_ping", "">> >>,
      << <<"exec_a.b", "x">>, <<"bad_option", "y">> >>,
      << <<"exec_ping", "">>, <<"exec_a.b", "x">> >>,
      << <<"mode", "">>, <<"timeout", "-1">> >> }

AddQuorumDevice ==
    /\ Idle
    /\ \E model \in QdeviceModels, model_options \in ModelOptionInputs,
          generic_options \in GenericOptionInputs,
          heuristics_options \in HeuristicsOptionInputs,
          force_model \in BOOLEAN, force_options \in BOOLEAN :
        call' = [op |-> "add_quorum_device",
                 args |-> [model |-> model, model_options |-> model_options,
                           generic_options |-> generic_options,
                           heuristics_options |-> heuristics_options,
                           node_ids |-> NodeIds,
                           force_model |-> force_model,
                           force_options |-> force_options],
                 ret |-> [raised |-> FALSE,
                          report_items |->
                              add_quorum_device(
                                  model, model_options, generic_options,
                                  heuristics_options, NodeIds,
                                  force_model, force_options)]]
    /\ UNCHANGED cib

UpdateQuorumDevice ==
    /\ Idle
    /\ \E model \in QdeviceModels, model_options \in ModelOptionInputs,
          generic_options \in GenericOptionInputs,
          heuristics_options \in HeuristicsOptionInputs,
          force_options \in BOOLEAN :
        call' = [op |-> "update_quorum_device",
                 args |-> [model |-> model, model_options |-> model_options,
                           generic_options |-> generic_options,
                           heuristics_options |-> heuristics_options,
                           node_ids |-> NodeIds,
                           force_options |-> force_options],
                 ret |-> [raised |-> FALSE,
                          report_items |->
                              update_quorum_device(
                                  model, model_options, generic_options,
                                  heuristics_options, NodeIds, force_options)]]
    /\ UNCHANGED cib

InitQdevice == InitCreate

NextQdevice ==
    \/ AddQuorumDevice
    \/ UpdateQuorumDevice
    \/ Return

SpecQdevice == InitQdevice /\ [][NextQdevice]_vars

\* the validators that take a force flag
InitForce == InitCreate

NextForce ==
    \/ CreateWith({ "c1" }, { "knet" })
    \/ AddQuorumDevice
    \/ UpdateQuorumDevice
    \/ Return

SpecForce == InitForce /\ [][NextForce]_vars

\* --------------------------------------------------------------------- C14
\* forced is unforced with every report that carries the force code turned
\* into a warning without force code, and nothing else changed
Downgraded(unforced, forced, force_code) ==
    /\ Len(forced) = Len(unforced)
    /\ \A i \in 1..Len(unforced) :
          IF unforced[i].forceable = force_code
          THEN /\ unforced[i].severity = ERROR
               /\ forced[i] = [unforced[i] EXCEPT !.severity = WARNING,
                                                  !.forceable = NoForce]
          ELSE forced[i] = unforced[i]

NoWarningWithForceCode(report_items) ==
    \A i \in 1..Len(report_items) :
        report_items[i].severity = WARNING => report_items[i].forceable = NoForce

\* the reports of the call in progress with one of its flags set as given
CreateForced(a, force_unresolvable) ==
    create(a.cluster_name, a.node_list, a.transport, force_unresolvable).report_items

AddForced(a, force_model, force_options) ==
    add_quorum_device(a.model, a.model_options, a.generic_options,
                      a.heuristics_options, a.node_ids, force_model, force_options)

UpdateForced(a, force_options) ==
    update_quorum_device(a.model, a.model_options, a.generic_options,
                         a.heuristics_options, a.node_ids, force_options)

\* C14: forcing only downgrades. For the same inputs the reports of create,
\* add_quorum_device and update_quorum_device with a force flag set are the
\* reports without it, except that each report forceable by that flag is a
\* WARNING without force code instead of an ERROR with the force code; and no
\* returned WARNING carries a force code.
C14_ForcingOnlyDowngrades ==
    /\ call.op \in { "create", "add_quorum_device", "update_quorum_device" } =>
          NoWarningWithForceCode(call.ret.report_items)
    /\ call.op = "create" =>
          /\ call.ret.report_items
                 = CreateForced(call.args, call.args.force_unresolvable)
          /\ Downgraded(CreateForced(call.args, FALSE), CreateForced(call.args, TRUE),
                        FORCE_NODE_ADDRESSES_UNRESOLVABLE)
    /\ call.op = "add_quorum_device" =>
          /\ call.ret.report_items
                 = AddForced(call.args, call.args.force_model, call.args.force_options)
          /\ Downgraded(AddForced(call.args, call.args.force_model, FALSE),
                        AddForced(call.args, call.args.force_model, TRUE),
                        FORCE_OPTIONS)
          /\ Downgraded(AddForced(call.args, FALSE, call.args.force_options),
                        AddForced(call.args, TRUE, call.args.force_options),
                        FORCE_QDEVICE_MODEL)
    /\ call.op = "update_quorum_device" =>
          /\ call.ret.report_items = UpdateForced(call.args, call.args.force_options)
          /\ Downgraded(UpdateForced(call.args, FALSE), UpdateForced(call.args, TRUE),
                        FORCE_OPTIONS)

\* a forced add with forceable and unforceable violations: warnings beside
\* errors, and the unforced call has more errors
C14_Witness ==
    /\ call.op = "add_quorum_device"
    /\ call.args.force_options
    /\ \E i, j \in 1..Len(call.ret.report_items) :
          /\ call.ret.report_items[i].severity = WARNING
          /\ call.ret.report_items[j].severity = ERROR
    /\ \E i \in 1..Len(call.ret.report_items) :
          /\ call.ret.report_items[i].severity = WARNING
          /\ AddForced(call.args, call.args.force_model, FALSE)[i].severity = ERROR
          /\ AddForced(call.args, call.args.force_model, FALSE)[i].forceable
                 = FORCE_OPTIONS

\* --------------------------------------------------------------------- C20
\* the reports on the value of the option "model"
ModelValueReports(report_items) ==
    { i \in 1..Len(report_items) :
        /\ report_items[i].code = "invalid_option_value"
        /\ report_items[i].info.option_name = "model" }

\* the reports that come from validating model options
ModelOptionReports(report_items) ==
    { i \in 1..Len(report_items) :
        \/ /\ report_items[i].code \in { "required_option_is_missing", "invalid_options" }
           /\ report_items[i].info.option_type = "quorum device model"
        \/ /\ report_items[i].code = "invalid_option_value"
           /\ report_items[i].info.option_name
                  \in { "algorithm", "host", "connect_timeout", "force_ip_version",
                        "port", "tie_breaker" } }

\* C20: add_quorum_device with a model other than "net" returns exactly one
\* invalid-value report for the option "model", an ERROR with the force code
\* FORCE_QDEVICE_MODEL unless force_model is set and then a WARNING without
\* force code, whatever force_options is, and validates no model option; with
\* the model "net" there is no such report. update_quorum_device never
\* reports on the model value.
C20_UnknownModel ==
    /\ call.op = "add_quorum_device" =>
          IF call.args.model = "net"
          THEN ModelValueReports(call.ret.report_items) = {}
          ELSE /\ Cardinality(ModelValueReports(call.ret.report_items)) = 1
               /\ \A i \in ModelValueReports(call.ret.report_items) :
                     /\ call.ret.report_items[i].info.option_value = call.args.model
                     /\ call.ret.report_items[i].severity
                            = (IF call.args.force_model THEN WARNING ELSE ERROR)
                     /\ call.ret.report_items[i].forceable
                            = (IF call.args.force_model THEN NoForce
                                                        ELSE FORCE_QDEVICE_MODEL)
               /\ ModelOptionReports(call.ret.report_items) = {}
    /\ call.op = "update_quorum_device" =>
          ModelValueReports(call.ret.report_items) = {}

\* an add with the model "disk", force_options set and force_model not set,
\* and model options that the net model would reject: the one model report is
\* an error
C20_Witness ==
    /\ call.op = "add_quorum_device"
    /\ call.args.model = "disk"
    /\ call.args.force_options
    /\ ~call.args.force_model
    /\ call.args.model_options = << <<"algorithm", "">>, <<"host", "">> >>
    /\ call.args.generic_options = <<>>
    /\ call.args.heuristics_options = <<>>
    /\ Len(call.ret.report_items) = 1
    /\ call.ret.report_items[1].severity = ERROR
    /\ call.ret.report_items[1].forceable = FORCE_QDEVICE_MODEL

\* ------------------------------------------------ transport, totem, quorum
\* lines 288-312 with the names check made forceable, as the quorum device
\* validators have it
create_transport_udp_forceable(options) ==
    value_in_forceable("ip_version", << "ipv4", "ipv6" >>, NoForce, FALSE, options)
    \o value_positive_integer("netmtu", NoForce, FALSE, options)
    \o names_in(<< "ip_version", "netmtu" >>, dict_keys(options),
                "udp/udpu transport", FORCE_OPTIONS, FALSE)

\* lines 288-312
create_transport_udp(options) ==
    value_in_forceable("ip_version", << "ipv4", "ipv6" >>, NoForce, FALSE, options)
    \o value_positive_integer("netmtu", NoForce, FALSE, options)
    \o names_in(<< "ip_version", "netmtu" >>, dict_keys(options),
                "udp/udpu transport", NoForce, FALSE)

\* crypto_options.get(key, default)
dict_get_default(d, key, default) == IF dict_has(d, key) THEN dict_get(d, key) ELSE default

\* lines 397-405 taking a cipher or hash that is not given for "none"
cipher_requires_hash_reports_no_defaults(crypto_options) ==
    IF /\ dict_get_default(crypto_options, "cipher", "none") # "none"
       /\ dict_get_default(crypto_options, "hash", "none") = "none"
    THEN << corosync_crypto_cipher_requires_crypto_hash >>
    ELSE <<>>

\* lines 397-405
cipher_requires_hash_reports(crypto_options) ==
    IF /\ dict_get_default(crypto_options, "cipher", "aes256") # "none"
       /\ dict_get_default(crypto_options, "hash", "sha1") = "none"
    THEN << corosync_crypto_cipher_requires_crypto_hash >>
    ELSE <<>>

\* lines 314-406
create_transport_knet(generic_options, compression_options, crypto_options) ==
    value_in_forceable("ip_version", << "ipv4", "ipv6" >>, NoForce, FALSE,
                       generic_options)
    \o value_nonnegative_integer("knet_pmtud_interval", NoForce, FALSE, generic_options)
    \o value_in_forceable("link_mode", << "active", "passive", "rr" >>, NoForce, FALSE,
                          generic_options)
    \o names_in(<< "ip_version", "knet_pmtud_interval", "link_mode" >>,
                dict_keys(generic_options), "transport", NoForce, FALSE)
    \o value_not_empty("level", "a compression level e.g. 0..9", "level",
                       compression_options)
    \o value_not_empty("model", "a compression model e.g. zlib, lz4 or bzip2", "model",
                       compression_options)
    \o value_nonnegative_integer("threshold", NoForce, FALSE, compression_options)
    \o names_in(<< "level", "model", "threshold" >>,
                dict_keys(compression_options), "compression", NoForce, FALSE)
    \o value_in_forceable("cipher", << "none", "aes256", "aes192", "aes128", "3des" >>,
                          NoForce, FALSE, crypto_options)
    \o value_in_forceable("hash",
                          << "none", "md5", "sha1", "sha256", "sha384", "sha512" >>,
                          NoForce, FALSE, crypto_options)
    \o value_in_forceable("model", << "nss", "openssl" >>, NoForce, FALSE,
                          crypto_options)
    \o names_in(<< "cipher", "hash", "model" >>,
                dict_keys(crypto_options), "crypto", NoForce, FALSE)
    \o cipher_requires_hash_reports(crypto_options)

\* lines 419-437
TotemOptions ==
    << "consensus", "downcheck", "fail_recv_const", "heartbeat_failures_allowed",
       "hold", "join", "max_messages", "max_network_delay", "merge",
       "miss_count_const", "send_join", "seqno_unchanged_const", "token",
       "token_coefficient", "token_retransmit",
       "token_retransmits_before_loss_const", "window_size" >>

\* lines 438-458: value_nonnegative_integer for each totem option
RECURSIVE totem_validators(_, _)
totem_validators(option_names, options) ==
    IF option_names = <<>> THEN <<>>
    ELSE value_nonnegative_integer(Head(option_names), NoForce, FALSE, options)
         \o totem_validators(Tail(option_names), options)

\* lines 408-464
create_totem(options) ==
    totem_validators(TotemOptions, options)
    \o names_in(TotemOptions, dict_keys(options), "totem", NoForce, FALSE)

\* constants.QUORUM_OPTIONS
QUORUM_OPTIONS ==
    << "auto_tie_breaker", "last_man_standing", "last_man_standing_window",
       "wait_for_all" >>

\* constants.QUORUM_OPTIONS_INCOMPATIBLE_WITH_QDEVICE
QUORUM_OPTIONS_INCOMPATIBLE_WITH_QDEVICE ==
    << "auto_tie_breaker", "last_man_standing", "last_man_standing_window" >>

\* lines 527-553, run on the options
quorum_options_validators(allow_empty_values, options) ==
    empty_or_valid_if(allow_empty_values, "auto_tie_breaker",
        value_in_forceable("auto_tie_breaker", << "0", "1" >>, NoForce, FALSE, options),
        options)
    \o empty_or_valid_if(allow_empty_values, "last_man_standing",
           value_in_forceable("last_man_standing", << "0", "1" >>, NoForce, FALSE,
                              options),
           options)
    \o empty_or_valid_if(allow_empty_values, "last_man_standing_window",
           value_positive_integer("last_man_standing_window", NoForce, FALSE, options),
           options)
    \o empty_or_valid_if(allow_empty_values, "wait_for_all",
           value_in_forceable("wait_for_all", << "0", "1" >>, NoForce, FALSE, options),
           options)

\* lines 515-518 passing over the options given with an empty value
qdevice_incompatible_options_nonempty(options) ==
    SelectSeq(dict_keys(options),
              LAMBDA name : /\ name \in Range(QUORUM_OPTIONS_INCOMPATIBLE_WITH_QDEVICE)
                            /\ dict_get(options, name) # "")

\* lines 515-518
qdevice_incompatible_options(options) ==
    SelectSeq(dict_keys(options),
              LAMBDA name : name \in Range(QUORUM_OPTIONS_INCOMPATIBLE_WITH_QDEVICE))

\* lines 507-525
validate_quorum_options(options, has_qdevice, allow_empty_values) ==
    quorum_options_validators(allow_empty_values, options)
    \o names_in(QUORUM_OPTIONS, dict_keys(options), "quorum", NoForce, FALSE)
    \o (IF has_qdevice /\ qdevice_incompatible_options(options) # <<>>
        THEN << corosync_options_incompatible_with_qdevice(
                    qdevice_incompatible_options(options)) >>
        ELSE <<>>)

\* lines 466-489
create_quorum_options(options, has_qdevice) ==
    validate_quorum_options(options, has_qdevice, FALSE)
    \o depends_on_option("last_man_standing_window", "last_man_standing", options)

\* lines 491-505
update_quorum_options(options, has_qdevice) ==
    validate_quorum_options(options, has_qdevice, TRUE)

\* --------------------------------------- transport, totem, quorum: inputs
UdpOptionInputs ==
    { <<>>,
      << <<"ip_version", "ipv4">>, <<"netmtu", "1000">> >>,
      << <<"ip_version", "ipv5">>, <<"netmtu", "0">>, <<"bad_option", "x">> >>,
      << <<"netmtu", "">> >> }

KnetGenericInputs ==
    { <<>>,
      << <<"ip_version", "ipv6">>, <<"knet_pmtud_interval", "10">>,
         <<"link_mode", "rr">> >>,
      << <<"knet_pmtud_interval", "-1">>, <<"link_mode", "bad">>,
         <<"bad_option", "x">> >>,
      << <<"ip_version", "">> >> }

KnetCompressionInputs ==
    { <<>>,
      << <<"level", "1">>, <<"model", "zlib">>, <<"threshold", "10">> >>,
      << <<"level", "">>, <<"model", "">>, <<"threshold", "abc">> >>,
      << <<"bad_option", "x">> >> }

KnetCryptoInputs ==
    { <<>>,
      << <<"hash", "none">> >>,
      << <<"cipher", "none">>, <<"hash", "none">> >>,
      << <<"cipher", "aes256">>, <<"hash", "sha1">>, <<"model", "nss">> >>,
      << <<"cipher", "aes128">>, <<"hash", "none">> >>,
      << <<"cipher", "none">> >>,
      << <<"cipher", "bad">>, <<"hash", "bad">>, <<"model", "bad">>,
         <<"bad_option", "x">> >> }

TotemOptionInputs ==
    { <<>>,
      << <<"token", "1000">>, <<"join", "0">> >>,
      << <<"token", "-1">>, <<"consensus", "abc">>, <<"bad_option", "x">> >>,
      << <<"window_size", "">> >>,
      << <<"token_retransmits_before_loss_const", "10">>, <<"version", "1">> >> }

QuorumOptionInputs ==
    { <<>>,
      << <<"auto_tie_breaker", "1">>, <<"wait_for_all", "0">> >>,
      << <<"last_man_standing_window", "10">> >>,
      << <<"last_man_standing", "1">>, <<"last_man_standing_window", "0">>,
         <<"bad_option", "x">> >>,
      << <<"auto_tie_breaker", "">>, <<"wait_for_all", "2">> >>,
      << <<"wait_for_all", "1">>, <<"last_man_standing_window", "">> >> }

\* a validator that returns its reports
Reported(report_items) == [raised |-> FALSE, report_items |-> report_items]

CreateTransportUdp ==
    /\ Idle
    /\ \E options \in UdpOptionInputs :
        call' = [op |-> "create_transport_udp",
                 args |-> [options |-> options],
                 ret |-> Reported(create_transport_udp(options))]
    /\ UNCHANGED cib

CreateTransportKnet ==
    /\ Idle
    /\ \E generic_options \in KnetGenericInputs,
          compression_options \in KnetCompressionInputs,
          crypto_options \in KnetCryptoInputs :
        call' = [op |-> "create_transport_knet",
                 args |-> [generic_options |-> generic_options,
                           compression_options |-> compression_options,
                           crypto_options |-> crypto_options],
                 ret |-> Reported(create_transport_knet(
                             generic_options, compression_options, crypto_options))]
    /\ UNCHANGED cib

CreateTotem ==
    /\ Idle
    /\ \E options \in TotemOptionInputs :
        call' = [op |-> "create_totem",
                 args |-> [options |-> options],
                 ret |-> Reported(create_totem(options))]
    /\ UNCHANGED cib

CreateQuorumOptions ==
    /\ Idle
    /\ \E options \in QuorumOptionInputs, has_qdevice \in BOOLEAN :
        call' = [op |-> "create_quorum_options",
                 args |-> [options |-> options, has_qdevice |-> has_qdevice],
                 ret |-> Reported(create_quorum_options(options, has_qdevice))]
    /\ UNCHANGED cib

UpdateQuorumOptions ==
    /\ Idle
    /\ \E options \in QuorumOptionInputs, has_qdevice \in BOOLEAN :
        call' = [op |-> "update_quorum_options",
                 args |-> [options |-> options, has_qdevice |-> has_qdevice],
                 ret |-> Reported(update_quorum_options(options, has_qdevice))]
    /\ UNCHANGED cib

InitOptions == InitCreate

NextOptions ==
    \/ CreateTransportUdp
    \/ CreateTransportKnet
    \/ CreateTotem
    \/ CreateQuorumOptions
    \/ UpdateQuorumOptions
    \/ Return

SpecOptions == InitOptions /\ [][NextOptions]_vars

\* --------------------------------------------------------------------- C15
UnforceableValidators ==
    { "create_transport_udp", "create_transport_knet", "create_totem",
      "create_quorum_options", "update_quorum_options" }

AllErrorsWithoutForceCode(report_items) ==
    \A i \in 1..Len(report_items) :
        /\ report_items[i].severity = ERROR
        /\ report_items[i].forceable = NoForce

ReportCodes(report_items) == { report_items[i].code : i \in 1..Len(report_items) }

\* C15: every report of create_transport_udp, create_transport_knet,
\* create_totem, create_quorum_options and update_quorum_options is an ERROR
\* without force code, and the only things reported are option names outside
\* the allowlist and option values outside their allowed set or range.
C15_OnlyNamesAndValues ==
    call.op \in UnforceableValidators =>
        /\ AllErrorsWithoutForceCode(call.ret.report_items)
        /\ ReportCodes(call.ret.report_items)
               \subseteq { "invalid_options", "invalid_option_value" }

\* C15, amended: every report of these functions is an ERROR without force
\* code. Beside option names outside the allowlist and option values outside
\* their allowed set or range (or empty), create_transport_knet reports a
\* cipher without a hash, create_quorum_options a last_man_standing_window
\* without last_man_standing, and create_quorum_options and
\* update_quorum_options the options incompatible with a quorum device.
C15_AllErrorsNeverForceable ==
    call.op \in UnforceableValidators =>
        /\ AllErrorsWithoutForceCode(call.ret.report_items)
        /\ ReportCodes(call.ret.report_items)
               \subseteq
                 { "invalid_options", "invalid_option_value" }
                 \cup (IF call.op = "create_transport_knet"
                       THEN { "corosync_crypto_cipher_requires_crypto_hash" }
                       ELSE {})
                 \cup (IF call.op = "create_quorum_options"
                       THEN { "prerequisite_option_is_missing" }
                       ELSE {})
                 \cup (IF call.op \in { "create_quorum_options",
                                       "update_quorum_options" }
                            /\ call.args.has_qdevice
                       THEN { "corosync_options_incompatible_with_qdevice" }
                       ELSE {})

\* knet options with an unknown name, an invalid value and a cipher without
\* a hash: three kinds of report, all errors
C15_Witness ==
    /\ call.op = "create_transport_knet"
    /\ ReportCodes(call.ret.report_items)
          = { "invalid_options", "invalid_option_value",
              "corosync_crypto_cipher_requires_crypto_hash" }
    /\ AllErrorsWithoutForceCode(call.ret.report_items)

\* --------------------------------------------------------------------- C21
CalledQdevice == call.op \in { "add_quorum_device", "update_quorum_device" }

GivenNames(options) == { options[i][1] : i \in 1..Len(options) }

\* the given heuristics names that start with exec_ and fail the pattern
FailingExecNames(options) ==
    { name \in GivenNames(options) :
        name \in ExecPrefixedNames /\ ~exec_name_re_match(name) }

\* the given heuristics names that match the pattern and have an empty value
EmptyValidExecNames(options) ==
    { options[i][1] :
        i \in { j \in 1..Len(options) :
                  exec_name_re_match(options[j][1]) /\ options[j][2] = "" } }

\* the reports of an option value that name the option
ValueReportsOf(report_items, option_name) ==
    { i \in ReportsOf(report_items, "invalid_option_value") :
        report_items[i].info.option_name = option_name }

\* C21: in add and in update of a quorum device, whatever force_options is,
\* the heuristics names that start with exec_ and fail the exec-name pattern
\* are reported by one ERROR without force code and never by the forceable
\* report of unknown names; a valid exec_NAME with an empty value is an error
\* in add and gives no report in update.
C21_ExecNamesStrict ==
    CalledQdevice =>
        /\ IF FailingExecNames(call.args.heuristics_options) = {}
           THEN ReportsOf(call.ret.report_items, "invalid_userdefined_options") = {}
           ELSE /\ Cardinality(ReportsOf(call.ret.report_items,
                                         "invalid_userdefined_options")) = 1
                /\ \A i \in ReportsOf(call.ret.report_items,
                                      "invalid_userdefined_options") :
                      /\ call.ret.report_items[i].severity = ERROR
                      /\ call.ret.report_items[i].forceable = NoForce
                      /\ Range(call.ret.report_items[i].info.option_names)
                             = FailingExecNames(call.args.heuristics_options)
        /\ \A i \in ReportsOf(call.ret.report_items, "invalid_options") :
              call.ret.report_items[i].info.option_type = "heuristics"
                  => call.ret.report_items[i].info.option_names
                         \cap ExecPrefixedNames = {}
        /\ \A name \in EmptyValidExecNames(call.args.heuristics_options) :
              IF call.op = "add_quorum_device"
              THEN \E i \in ValueReportsOf(call.ret.report_items, name) :
                      /\ call.ret.report_items[i].severity = ERROR
                      /\ call.ret.report_items[i].forceable = NoForce
              ELSE ValueReportsOf(call.ret.report_items, name) = {}

\* a forced update that empties exec_ping and gives exec_a.b: one error, on
\* exec_a.b alone
C21_Witness ==
    /\ call.op = "update_quorum_device"
    /\ call.args.force_options
    /\ call.args.heuristics_options
          = << <<"exec_ping", "">>, <<"exec_a.b", "x">> >>
    /\ \E i \in 1..Len(call.ret.report_items) :
          /\ call.ret.report_items[i].code = "invalid_userdefined_options"
          /\ call.ret.report_items[i].severity = ERROR
          /\ call.ret.report_items[i].info.option_names = << "exec_a.b" >>
    /\ ValueReportsOf(call.ret.report_items, "exec_ping") = {}

\* --------------------------------------------------------------------- C22
\* the invalid-option reports on the generic options of a quorum device
GenericNameReports(report_items) ==
    { i \in ReportsOf(report_items, "invalid_options") :
        report_items[i].info.option_type = "quorum device" }

OtherUnknownNames(options) ==
    GivenNames(options) \ { "sync_timeout", "timeout", "model" }

\* C22: "model" among the generic options of a quorum device gets a report of
\* its own, an ERROR without force code whatever force_options is; all other
\* unknown names are listed by one report, an ERROR with the options force
\* code, or a WARNING without force code when force_options is true; there
\* is no other name report, so none when only sync_timeout and timeout are
\* given.
C22_ModelReportedApart ==
    CalledQdevice =>
        /\ Cardinality(GenericNameReports(call.ret.report_items))
              = (IF "model" \in GivenNames(call.args.generic_options) THEN 1 ELSE 0)
                + (IF OtherUnknownNames(call.args.generic_options) # {} THEN 1 ELSE 0)
        /\ "model" \in GivenNames(call.args.generic_options) =>
              \E i \in GenericNameReports(call.ret.report_items) :
                  /\ call.ret.report_items[i].info.option_names = << "model" >>
                  /\ call.ret.report_items[i].severity = ERROR
                  /\ call.ret.report_items[i].forceable = NoForce
        /\ OtherUnknownNames(call.args.generic_options) # {} =>
              \E i \in GenericNameReports(call.ret.report_items) :
                  /\ Range(call.ret.report_items[i].info.option_names)
                         = OtherUnknownNames(call.args.generic_options)
                  /\ call.ret.report_items[i].severity
                         = (IF call.args.force_options THEN WARNING ELSE ERROR)
                  /\ call.ret.report_items[i].forceable
                         = (IF call.args.force_options THEN NoForce ELSE FORCE_OPTIONS)

\* forced, with "model" and another unknown name: an error and a warning
C22_Witness ==
    /\ call.op = "add_quorum_device"
    /\ call.args.force_options
    /\ { "model", "bad_option" } \subseteq GivenNames(call.args.generic_options)
    /\ \E i, j \in GenericNameReports(call.ret.report_items) :
          /\ call.ret.report_items[i].info.option_names = << "model" >>
          /\ call.ret.report_items[i].severity = ERROR
          /\ call.ret.report_items[j].info.option_names = << "bad_option" >>
          /\ call.ret.report_items[j].severity = WARNING

\* --------------------------------------------------------------------- C23
CalledQuorumOptions ==
    call.op \in { "create_quorum_options", "update_quorum_options" }

\* last_man_standing_window is set and last_man_standing is absent
WindowWithoutLastManStanding(options) ==
    /\ "last_man_standing_window" \in GivenNames(options)
    /\ "last_man_standing" \notin GivenNames(options)

DependencyReports(report_items) ==
    { i \in ReportsOf(report_items, "prerequisite_option_is_missing") :
        /\ report_items[i].severity = ERROR
        /\ report_items[i].info.option_name = "last_man_standing_window"
        /\ report_items[i].info.prerequisite_name = "last_man_standing" }

\* C23: create_quorum_options and update_quorum_options both return a
\* dependency ERROR report when last_man_standing_window is set while
\* last_man_standing is absent, and none when last_man_standing is present.
C23_DependencyInCreateAndUpdate ==
    CalledQuorumOptions =>
        IF WindowWithoutLastManStanding(call.args.options)
        THEN DependencyReports(call.ret.report_items) # {}
        ELSE ReportsOf(call.ret.report_items, "prerequisite_option_is_missing") = {}

\* C23, as the code has it: create_quorum_options returns the one dependency
\* report in that case, update_quorum_options never returns one.
C23_DependencyInCreateOnly ==
    /\ call.op = "create_quorum_options" =>
          IF WindowWithoutLastManStanding(call.args.options)
          THEN /\ Cardinality(DependencyReports(call.ret.report_items)) = 1
               /\ Cardinality(ReportsOf(call.ret.report_items,
                                        "prerequisite_option_is_missing")) = 1
          ELSE ReportsOf(call.ret.report_items, "prerequisite_option_is_missing") = {}
    /\ call.op = "update_quorum_options" =>
          ReportsOf(call.ret.report_items, "prerequisite_option_is_missing") = {}

\* an update that sets only last_man_standing_window returns no report
C23_Witness ==
    /\ call.op = "update_quorum_options"
    /\ call.args.options = << <<"last_man_standing_window", "10">> >>
    /\ call.ret.report_items = <<>>

\* --------------------------------------------------------------------- C24
\* the given names of the fixed incompatible-with-qdevice set
IncompatibleGiven(options) ==
    GivenNames(options) \cap Range(QUORUM_OPTIONS_INCOMPATIBLE_WITH_QDEVICE)

\* C24: create_quorum_options and update_quorum_options return an
\* incompatible-with-qdevice report exactly when has_qdevice is true and some
\* given name is in the incompatible-with-qdevice set; the one report lists
\* exactly the given names of that set, whatever their values are.
C24_IncompatibleWithQdevice ==
    CalledQuorumOptions =>
        IF call.args.has_qdevice /\ IncompatibleGiven(call.args.options) # {}
        THEN /\ Cardinality(ReportsOf(call.ret.report_items,
                                      "corosync_options_incompatible_with_qdevice")) = 1
             /\ \A i \in ReportsOf(call.ret.report_items,
                                   "corosync_options_incompatible_with_qdevice") :
                   /\ Range(call.ret.report_items[i].info.options_names)
                          = IncompatibleGiven(call.args.options)
                   /\ NoRepeats(call.ret.report_items[i].info.options_names)
                   /\ call.ret.report_items[i].severity = ERROR
        ELSE ReportsOf(call.ret.report_items,
                       "corosync_options_incompatible_with_qdevice") = {}

\* an update with a quorum device that empties auto_tie_breaker
C24_Witness ==
    /\ call.op = "update_quorum_options"
    /\ call.args.has_qdevice
    /\ <<"auto_tie_breaker", "">> \in Range(call.args.options)
    /\ \E i \in 1..Len(call.ret.report_items) :
          /\ call.ret.report_items[i].code = "corosync_options_incompatible_with_qdevice"
          /\ call.ret.report_items[i].info.options_names = << "auto_tie_breaker" >>

\* ------------------------------------------------------------- link lists
min(a, b) == IF a <= b THEN a ELSE b

max(a, b) == IF a >= b THEN a ELSE b

corosync_enabled_broadcast_disallows_mcastaddr ==
    ReportItem("corosync_enabled_broadcast_disallows_mcastaddr", ERROR, NoForce, <<>>)

corosync_too_many_links(actual_count, max_count, transport) ==
    ReportItem("corosync_too_many_links", ERROR, NoForce,
               [actual_count |-> actual_count, max_count |-> max_count,
                transport |-> transport])

corosync_link_number_duplication(number_list) ==
    ReportItem("corosync_link_number_duplication", ERROR, NoForce,
               [link_number_list |-> number_list])

value_ip_address(option_name, option_dict) ==
    value_cond(option_name,
               \/ is_ipv4_address(value_of(option_dict, option_name))
               \/ is_ipv6_address(value_of(option_dict, option_name)),
               "an IP address", NoForce, FALSE, option_dict)

\* lines 192-204: the validators and the names check on the first link
udp_link_reports(options) ==
    value_ip_address("bindnetaddr", options)
    \o value_in_forceable("broadcast", << "0", "1" >>, NoForce, FALSE, options)
    \o value_ip_address("mcastaddr", options)
    \o value_port_number("mcastport", NoForce, FALSE, options)
    \o value_integer_in_range("ttl", 0, 255, NoForce, FALSE, options)
    \o names_in(<< "bindnetaddr", "broadcast", "mcastaddr", "mcastport", "ttl" >>,
                dict_keys(options), "link", NoForce, FALSE)

\* lines 205-208
udp_broadcast_reports(options) ==
    IF dict_get_default(options, "broadcast", "0") = "1" /\ dict_has(options, "mcastaddr")
    THEN << corosync_enabled_broadcast_disallows_mcastaddr >>
    ELSE <<>>

\* lines 209-217 reporting a link count that reaches the maximum
udp_too_many_links_reports_at_max(link_count) ==
    IF link_count >= LINKS_UDP_MAX
    THEN << corosync_too_many_links(link_count, LINKS_UDP_MAX, "udp/udpu") >>
    ELSE <<>>

\* lines 209-217
udp_too_many_links_reports(link_count) ==
    IF link_count > LINKS_UDP_MAX
    THEN << corosync_too_many_links(link_count, LINKS_UDP_MAX, "udp/udpu") >>
    ELSE <<>>

\* lines 174-218
create_link_list_udp(link_list) ==
    IF link_list = <<>> THEN <<>>
    ELSE udp_link_reports(link_list[1])
         \o udp_broadcast_reports(link_list[1])
         \o udp_too_many_links_reports(Len(link_list))

\* lines 232-235 without the lower limit 0
knet_max_link_number_unclamped(max_link_number) ==
    min(LINKS_KNET_MAX - 1, max_link_number)

\* lines 232-235
knet_max_link_number(max_link_number) ==
    max(0, min(LINKS_KNET_MAX - 1, max_link_number))

\* lines 247-259, 265-269: the validators and the names check on one link
knet_link_reports(options, max_link_number) ==
    value_in_forceable("ip_version", << "ipv4", "ipv6" >>, NoForce, FALSE, options)
    \o value_integer_in_range("linknumber", 0, max_link_number, NoForce, FALSE, options)
    \o value_integer_in_range("link_priority", 0, 255, NoForce, FALSE, options)
    \o value_port_number("mcastport", NoForce, FALSE, options)
    \o value_nonnegative_integer("ping_interval", NoForce, FALSE, options)
    \o value_nonnegative_integer("ping_precision", NoForce, FALSE, options)
    \o value_nonnegative_integer("ping_timeout", NoForce, FALSE, options)
    \o depends_on_option("ping_interval", "ping_timeout", options)
    \o depends_on_option("ping_timeout", "ping_interval", options)
    \o value_nonnegative_integer("pong_count", NoForce, FALSE, options)
    \o value_in_forceable("transport", << "sctp", "udp" >>, NoForce, FALSE, options)
    \o names_in(<< "ip_version", "linknumber", "link_priority", "mcastport",
                   "ping_interval", "ping_precision", "ping_timeout", "pong_count",
                   "transport" >>,
                dict_keys(options), "link", NoForce, FALSE)

\* lines 262-269: the reports of the links, in the order of the list
RECURSIVE knet_links_reports(_, _)
knet_links_reports(link_list, max_link_number) ==
    IF link_list = <<>> THEN <<>>
    ELSE knet_link_reports(Head(link_list), max_link_number)
         \o knet_links_reports(Tail(link_list), max_link_number)

\* lines 261-264: used_link_number after the loop over the links
RECURSIVE used_link_number(_, _)
used_link_number(counted, link_list) ==
    IF link_list = <<>> THEN counted
    ELSE used_link_number(
             IF dict_has(Head(link_list), "linknumber")
             THEN counter_add(counted, dict_get(Head(link_list), "linknumber"))
             ELSE counted,
             Tail(link_list))

\* lines 270-272 counting the links without a linknumber as one more value
non_unique_linknumbers_with_none(link_list) ==
    keys_counted_over(used_link_number(<<>>, link_list), 1)
    \cup (IF Cardinality({ i \in 1..Len(link_list) :
                             ~dict_has(link_list[i], "linknumber") }) > 1
          THEN { PyNone } ELSE {})

\* lines 270-272
non_unique_linknumbers(link_list) ==
    keys_counted_over(used_link_number(<<>>, link_list), 1)

\* lines 273-276
link_number_duplication_reports(link_list) ==
    IF non_unique_linknumbers(link_list) = {} THEN <<>>
    ELSE << corosync_link_number_duplication(non_unique_linknumbers(link_list)) >>

\* lines 277-285
knet_too_many_links_reports(link_count) ==
    IF link_count > LINKS_KNET_MAX
    THEN << corosync_too_many_links(link_count, LINKS_KNET_MAX, "knet") >>
    ELSE <<>>

\* lines 220-286
create_link_list_knet(link_list, max_link_number) ==
    IF link_list = <<>> THEN <<>>
    ELSE knet_links_reports(link_list, knet_max_link_number(max_link_number))
         \o link_number_duplication_reports(link_list)
         \o knet_too_many_links_reports(Len(link_list))

\* ------------------------------------------------------ link lists: inputs
UdpLinkInputs ==
    { <<>>,
      << <<"bindnetaddr", "10.0.0.1">>, <<"mcastaddr", "10.0.0.2">>,
         <<"mcastport", "65535">>, <<"ttl", "255">> >>,
      << <<"broadcast", "1">>, <<"mcastaddr", "10.0.0.2">> >>,
      << <<"broadcast", "1">> >>,
      << <<"bindnetaddr", "nohost">>, <<"ttl", "256">>, <<"bad_option", "x">> >>,
      << <<"broadcast", "0">>, <<"mcastaddr", "::1">>, <<"mcastport", "0">> >> }

UdpLinkListInputs == SeqsUpTo(UdpLinkInputs, MaxLinks)

KnetLinkInputs ==
    { <<>>,
      << <<"linknumber", "0">> >>,
      << <<"linknumber", "1">> >>,
      << <<"linknumber", "7">> >>,
      << <<"linknumber", "8">> >>,
      << <<"linknumber", "-1">> >>,
      << <<"linknumber", "abc">>, <<"ping_interval", "10">> >>,
      << <<"linknumber", "0">>, <<"ip_version", "ipv5">>,
         <<"link_priority", "256">>, <<"bad_option", "x">> >>,
      << <<"linknumber", "1">>, <<"ping_interval", "10">>,
         <<"ping_timeout", "1000">>, <<"transport", "udp">>,
         <<"mcastport", "1">>, <<"pong_count", "4">> >> }

\* link lists of as many links as knet allows, and of one more
KnetLongLinkListInputs ==
    { [ i \in 1..n |-> options ] :
        n \in { LINKS_KNET_MAX, LINKS_KNET_MAX + 1 },
        options \in { <<>>, << <<"linknumber", "0">> >> } }

KnetLinkListInputs == SeqsUpTo(KnetLinkInputs, MaxLinks) \cup KnetLongLinkListInputs

\* below 0, within 0..7, and above the highest link number of knet
MaxLinkNumberInputs == { -1, 0, 1, 6, 7, 8 }

CreateLinkListUdp ==
    /\ Idle
    /\ \E link_list \in UdpLinkListInputs :
        call' = [op |-> "create_link_list_udp",
                 args |-> [link_list |-> link_list],
                 ret |-> Reported(create_link_list_udp(link_list))]
    /\ UNCHANGED cib

CreateLinkListKnet ==
    /\ Idle
    /\ \E link_list \in KnetLinkListInputs, max_link_number \in MaxLinkNumberInputs :
        call' = [op |-> "create_link_list_knet",
                 args |-> [link_list |-> link_list,
                           max_link_number |-> max_link_number],
                 ret |-> Reported(create_link_list_knet(link_list, max_link_number))]
    /\ UNCHANGED cib

InitLinks == InitCreate

NextLinks ==
    \/ CreateLinkListUdp
    \/ CreateLinkListKnet
    \/ Return

SpecLinks == InitLinks /\ [][NextLinks]_vars

\* --------------------------------------------------------------------- C25
CalledKnetLinks == call.op = "create_link_list_knet"

\* the linknumber values given by the links
LinkNumbersGiven(link_list) ==
    { dict_get(link_list[i], "linknumber") :
        i \in { j \in 1..Len(link_list) : dict_has(link_list[j], "linknumber") } }

IntegerWithin(value, at_least, at_most) ==
    \E i \in 1..Len(IntegerStrings) :
        /\ IntegerStrings[i][1] = value
        /\ at_least <= IntegerStrings[i][2]
        /\ IntegerStrings[i][2] <= at_most

\* the reports of an invalid value that name the linknumber option and the value
LinkNumberReports(report_items, value) ==
    { i \in ValueReportsOf(report_items, "linknumber") :
        report_items[i].info.option_value = value }

\* the highest link number of the claim, and of the code
ClaimedMaxLinkNumber(max_link_number) ==
    IF max_link_number < LINKS_KNET_MAX - 1 THEN max_link_number
    ELSE LINKS_KNET_MAX - 1

ClampedMaxLinkNumber(max_link_number) ==
    IF ClaimedMaxLinkNumber(max_link_number) < 0 THEN 0
    ELSE ClaimedMaxLinkNumber(max_link_number)

\* C25: create_link_list_knet accepts a linknumber value exactly when it is
\* an integer within [0, min(family_max - 1, max_link_number)], for every
\* max_link_number; every other linknumber value gets an invalid-value report.
C25_LinkNumberWithinClaimedRange ==
    CalledKnetLinks =>
        \A value \in LinkNumbersGiven(call.args.link_list) :
            LinkNumberReports(call.ret.report_items, value) = {}
                <=> IntegerWithin(value, 0,
                                  ClaimedMaxLinkNumber(call.args.max_link_number))

\* C25, amended: the range is [0, max(0, min(family_max - 1, max_link_number))]:
\* link number 0 is accepted also when max_link_number is below 0. A value
\* outside the range gets an ERROR report without force code for each link
\* that gives it.
C25_LinkNumberWithinClampedRange ==
    CalledKnetLinks =>
        \A value \in LinkNumbersGiven(call.args.link_list) :
            IF IntegerWithin(value, 0, ClampedMaxLinkNumber(call.args.max_link_number))
            THEN LinkNumberReports(call.ret.report_items, value) = {}
            ELSE /\ Cardinality(LinkNumberReports(call.ret.report_items, value))
                       = Cardinality({ i \in 1..Len(call.args.link_list) :
                                         <<"linknumber", value>>
                                             \in Range(call.args.link_list[i]) })
                 /\ \A i \in LinkNumberReports(call.ret.report_items, value) :
                       /\ call.ret.report_items[i].severity = ERROR
                       /\ call.ret.report_items[i].forceable = NoForce

\* max_link_number below 0, links 0 and 1: 0 is accepted, 1 is reported
C25_Witness ==
    /\ CalledKnetLinks
    /\ call.args.max_link_number = -1
    /\ call.args.link_list
          = << << <<"linknumber", "0">> >>, << <<"linknumber", "1">> >> >>
    /\ LinkNumberReports(call.ret.report_items, "0") = {}
    /\ LinkNumberReports(call.ret.report_items, "1") # {}

\* --------------------------------------------------------------------- C26
\* the linknumber values given by more than one link
LinkNumbersRepeated(link_list) ==
    { value \in LinkNumbersGiven(link_list) :
        Cardinality({ i \in 1..Len(link_list) :
                        <<"linknumber", value>> \in Range(link_list[i]) }) > 1 }

\* C26: create_link_list_knet returns exactly one duplicate-linknumber report
\* when some linknumber value is given by more than one link, naming exactly
\* those values, and none when all given values differ; links without a
\* linknumber take no part.
C26_LinkNumberDuplication ==
    CalledKnetLinks =>
        IF LinkNumbersRepeated(call.args.link_list) = {}
        THEN ReportsOf(call.ret.report_items, "corosync_link_number_duplication") = {}
        ELSE /\ Cardinality(ReportsOf(call.ret.report_items,
                                      "corosync_link_number_duplication")) = 1
             /\ \A i \in ReportsOf(call.ret.report_items,
                                   "corosync_link_number_duplication") :
                   /\ call.ret.report_items[i].info.link_number_list
                          = LinkNumbersRepeated(call.args.link_list)
                   /\ call.ret.report_items[i].severity = ERROR

\* two links of link number 0
C26_Witness ==
    /\ CalledKnetLinks
    /\ call.args.link_list
          = << << <<"linknumber", "0">> >>, << <<"linknumber", "0">> >> >>
    /\ call.args.max_link_number = 7
    /\ call.ret.report_items = << corosync_link_number_duplication({ "0" }) >>

\* --------------------------------------------------------------------- C27
CalledLinks == call.op \in { "create_link_list_udp", "create_link_list_knet" }

FamilyMaxLinks == IF call.op = "create_link_list_udp" THEN LINKS_UDP_MAX ELSE LINKS_KNET_MAX

FamilyName == IF call.op = "create_link_list_udp" THEN "udp/udpu" ELSE "knet"

\* C27: create_link_list_udp and create_link_list_knet return a too-many-links
\* report exactly when the link list has more links than the family allows
\* (1 for udp/udpu, 8 for knet); the one report gives the count and the
\* maximum; an empty link list gives no report at all.
C27_TooManyLinks ==
    CalledLinks =>
        /\ IF Len(call.args.link_list) > FamilyMaxLinks
           THEN /\ Cardinality(ReportsOf(call.ret.report_items,
                                         "corosync_too_many_links")) = 1
                /\ \A i \in ReportsOf(call.ret.report_items, "corosync_too_many_links") :
                      /\ call.ret.report_items[i].info.actual_count
                             = Len(call.args.link_list)
                      /\ call.ret.report_items[i].info.max_count = FamilyMaxLinks
                      /\ call.ret.report_items[i].info.transport = FamilyName
                      /\ call.ret.report_items[i].severity = ERROR
           ELSE ReportsOf(call.ret.report_items, "corosync_too_many_links") = {}
        /\ call.args.link_list = <<>> => call.ret.report_items = <<>>

\* nine knet links
C27_Witness ==
    /\ CalledKnetLinks
    /\ Len(call.args.link_list) = LINKS_KNET_MAX + 1
    /\ \E i \in 1..Len(call.ret.report_items) :
          call.ret.report_items[i] = corosync_too_many_links(9, 8, "knet")

\* --------------------------------------------------------------------- C28
CalledQdeviceNet == CalledQdevice /\ call.args.model = "net"

AlgorithmGiven == "algorithm" \in GivenNames(call.args.model_options)

AlgorithmValue ==
    call.args.model_options[
        CHOOSE i \in 1..Len(call.args.model_options) :
            call.args.model_options[i][1] = "algorithm"][2]

\* the reports of a required option that is missing which name the option
MissingReportsOf(report_items, option_name) ==
    { i \in ReportsOf(report_items, "required_option_is_missing") :
        option_name \in Range(report_items[i].info.option_names) }

\* C28: for the options of the net model, an absent algorithm gives no value
\* report (in add the missing-required-option report, in update nothing); an
\* empty algorithm gives one ERROR without force code in add and in update,
\* also when force_options is true; a non-empty value outside {ffsplit, lms}
\* gives one ERROR with the options force code, or one WARNING without force
\* code when force_options is true; ffsplit and lms give no report.
C28_NetAlgorithm ==
    CalledQdeviceNet =>
        IF ~AlgorithmGiven
        THEN /\ ValueReportsOf(call.ret.report_items, "algorithm") = {}
             /\ Cardinality(MissingReportsOf(call.ret.report_items, "algorithm"))
                   = (IF call.op = "add_quorum_device" THEN 1 ELSE 0)
        ELSE /\ MissingReportsOf(call.ret.report_items, "algorithm") = {}
             /\ IF AlgorithmValue \in { "ffsplit", "lms" }
                THEN ValueReportsOf(call.ret.report_items, "algorithm") = {}
                ELSE /\ Cardinality(ValueReportsOf(call.ret.report_items,
                                                   "algorithm")) = 1
                     /\ \A i \in ValueReportsOf(call.ret.report_items, "algorithm") :
                           /\ call.ret.report_items[i].info.option_value = AlgorithmValue
                           /\ call.ret.report_items[i].severity
                                  = (IF AlgorithmValue # "" /\ call.args.force_options
                                     THEN WARNING ELSE ERROR)
                           /\ call.ret.report_items[i].forceable
                                  = (IF AlgorithmValue = "" \/ call.args.force_options
                                     THEN NoForce ELSE FORCE_OPTIONS)

\* a forced update that empties the algorithm: an error all the same
C28_Witness ==
    /\ call.op = "update_quorum_device"
    /\ call.args.model = "net"
    /\ call.args.force_options
    /\ <<"algorithm", "">> \in Range(call.args.model_options)
    /\ \E i \in ValueReportsOf(call.ret.report_items, "algorithm") :
          /\ call.ret.report_items[i].severity = ERROR
          /\ call.ret.report_items[i].forceable = NoForce

\* --------------------------------------------------------------------- C29
\* the value given for an option, or the default corosync takes without it
GivenOr(options, option_name, default) ==
    IF option_name \in GivenNames(options)
    THEN options[CHOOSE i \in 1..Len(options) : options[i][1] = option_name][2]
    ELSE default

\* C29: create_transport_knet returns one cipher-requires-hash report exactly
\* when the cipher (aes256 when not given) is not "none" and the hash (sha1
\* when not given) is "none".
C29_CipherRequiresHash ==
    call.op = "create_transport_knet" =>
        Cardinality(ReportsOf(call.ret.report_items,
                              "corosync_crypto_cipher_requires_crypto_hash"))
            = (IF /\ GivenOr(call.args.crypto_options, "cipher", "aes256") # "none"
                  /\ GivenOr(call.args.crypto_options, "hash", "sha1") = "none"
               THEN 1 ELSE 0)

\* only hash=none is given: the default cipher needs a hash
C29_Witness ==
    /\ call.op = "create_transport_knet"
    /\ call.args.generic_options = <<>>
    /\ call.args.compression_options = <<>>
    /\ call.args.crypto_options = << <<"hash", "none">> >>
    /\ call.ret.report_items = << corosync_crypto_cipher_requires_crypto_hash >>

\* ---------------------------------------------------------- qdevice client
\* texts are sequences of characters
Whitespace == { " ", "\n", "\t" }

RECURSIVE lstrip(_)
lstrip(text) ==
    IF text # <<>> /\ Head(text) \in Whitespace THEN lstrip(Tail(text)) ELSE text

RECURSIVE rstrip(_)
rstrip(text) ==
    IF text # <<>> /\ text[Len(text)] \in Whitespace
    THEN rstrip(SubSeq(text, 1, Len(text) - 1))
    ELSE text

\* str.strip()
strip(text) == rstrip(lstrip(text))

\* "\n".join(parts)
RECURSIVE join_lines(_)
join_lines(parts) ==
    IF parts = <<>> THEN <<>>
    ELSE IF Len(parts) = 1 THEN parts[1]
    ELSE parts[1] \o << "\n" >> \o join_lines(Tail(parts))

\* the stripped texts that are not empty, in a row
stripped_nonempty(strings) ==
    SelectSeq([ i \in 1..Len(strings) |-> strip(strings[i]) ],
              LAMBDA text : text # <<>>)

\* pcs.common.str_tools.join_multilines
join_multilines(strings) == join_lines(stripped_nonempty(strings))

\* os.path.join(settings.corosync_qdevice_binaries, "corosync-qdevice-tool")
corosync_qdevice_tool == "corosync_qdevice_binaries/corosync-qdevice-tool"

\* ReportItem.error(reports.messages.CorosyncQuorumGetStatusError(reason))
CorosyncQuorumGetStatusError(reason) ==
    ReportItem("CorosyncQuorumGetStatusError", ERROR, NoForce, [reason |-> reason])

\* lines 15-22
status_cmd(verbose) ==
    << corosync_qdevice_tool, "-s" >> \o (IF verbose THEN << "-v" >> ELSE <<>>)

\* lines 24-32 raising only for an exit code above 0
status_result_above_zero(cmd, stdout, stderr, retval) ==
    IF retval > 0
    THEN [raised |-> TRUE, value |-> <<>>, runs |-> << cmd >>,
          report_items |->
              << CorosyncQuorumGetStatusError(join_multilines(<< stderr, stdout >>)) >>]
    ELSE [raised |-> FALSE, value |-> << stdout >>, runs |-> << cmd >>,
          report_items |-> <<>>]

\* lines 23-32: runner.run(cmd) gave stdout, stderr and retval; runs is what
\* the runner was called with
status_result(cmd, stdout, stderr, retval) ==
    IF retval # 0
    THEN [raised |-> TRUE, value |-> <<>>, runs |-> << cmd >>,
          report_items |->
              << CorosyncQuorumGetStatusError(join_multilines(<< stderr, stdout >>)) >>]
    ELSE [raised |-> FALSE, value |-> << stdout >>, runs |-> << cmd >>,
          report_items |-> <<>>]

\* lines 10-32
get_status_text(runner, verbose) ==
    status_result(status_cmd(verbose), runner.stdout, runner.stderr, runner.retval)

\* what the tool prints: nothing, a line, a line with blanks around it
ToolOutputs ==
    { <<>>,
      << "o", "k", "\n" >>,
      << " ", "e", "r", "r", " ", "\n" >>,
      << "\n" >> }

\* exit codes of the tool: success, failures, and the tool killed by a signal
ToolExitCodes == { 0, 1, 2, -9 }

GetStatusText ==
    /\ Idle
    /\ \E verbose \in BOOLEAN, stdout \in ToolOutputs, stderr \in ToolOutputs,
          retval \in ToolExitCodes :
        call' = [op |-> "get_status_text",
                 args |-> [runner |-> [stdout |-> stdout, stderr |-> stderr,
                                       retval |-> retval],
                           verbose |-> verbose],
                 ret |-> get_status_text(
                             [stdout |-> stdout, stderr |-> stderr, retval |-> retval],
                             verbose)]
    /\ UNCHANGED cib

InitStatus == InitCreate

NextStatus ==
    \/ GetStatusText
    \/ Return

SpecStatus == InitStatus /\ [][NextStatus]_vars

\* --------------------------------------------------------------------- C30
CalledStatus == call.op = "get_status_text"

\* C30: get_status_text runs the status tool exactly once, with -s, and with
\* -v after it exactly when verbose is true; for exit code 0 it returns the
\* standard output of the tool unchanged; for every other exit code it raises
\* a LibraryError with one ERROR report, which carries the stderr and the
\* stdout of the tool (each stripped, stderr first, an empty one left out),
\* and returns nothing.
C30_StatusText ==
    CalledStatus =>
        /\ Len(call.ret.runs) = 1
        /\ call.ret.runs[1]
              = (IF call.args.verbose
                 THEN << corosync_qdevice_tool, "-s", "-v" >>
                 ELSE << corosync_qdevice_tool, "-s" >>)
        /\ call.ret.raised <=> call.args.runner.retval # 0
        /\ ~call.ret.raised =>
              /\ call.ret.value = << call.args.runner.stdout >>
              /\ call.ret.report_items = <<>>
        /\ call.ret.raised =>
              /\ call.ret.value = <<>>
              /\ Len(call.ret.report_items) = 1
              /\ call.ret.report_items[1].code = "CorosyncQuorumGetStatusError"
              /\ call.ret.report_items[1].severity = ERROR
              /\ call.ret.report_items[1].info.reason
                     = join_multilines(<< call.args.runner.stderr,
                                          call.args.runner.stdout >>)

\* the tool is killed by a signal after it printed to both streams
C30_Witness ==
    /\ CalledStatus
    /\ call.args.verbose
    /\ call.args.runner.retval = -9
    /\ call.args.runner.stdout = << "o", "k", "\n" >>
    /\ call.args.runner.stderr = << " ", "e", "r", "r", " ", "\n" >>
    /\ call.ret.raised
    /\ call.ret.report_items[1].info.reason = << "e", "r", "r", "\n", "o", "k" >>

====
